---- MODULE Spec2Model ----
(***************************************************************************)
(* A model of the analysis core of the MCP project manager:                *)
(*   - the filesystem scanner   (utils/file-utils.ts, FileAnalyzer)        *)
(*   - the dependency graph     (DependencyAnalyzer)                       *)
(*   - the complexity metric    (CodeAnalyzer.calculateComplexity)         *)
(* Strings whose characters the code inspects (file names, source lines)   *)
(* are tuples of one-character strings, so that startsWith, extname,       *)
(* includes and trim are computed, not assumed.                            *)
(***************************************************************************)
EXTENDS Integers, Sequences, FiniteSets, TLC

VARIABLES
    present,        \* scanner: the entries of the directory template that exist on disk
    unreadable,     \* scanner: the entries whose stat / listing fails
    scanCall,       \* scanner: the arguments of the last analyzeProjectStructure call
    scanResult,     \* scanner: what that call returned or threw
    parserLoaded,   \* parser-utils: require('tree-sitter') succeeded when the module loaded
    parsers,        \* parser-utils: the languages with a cached parser instance
    source,         \* metrics: the file under analysis, [name, lines]
    cxCall,         \* metrics: the arguments of the last calculateComplexity call
    cxResult,       \* metrics: what that call returned or threw
    importsOf,      \* dependencies: per source file, the import strings its tree holds
    depCall,        \* dependencies: the arguments of the analyzeDependencies call
    depPc,          \* dependencies: "idle", "dfs" (inside detectCircularDependencies), "done"
    depNodes,       \* dependencies: nodes, in file order
    depEdges,       \* dependencies: edges, one per import occurrence
    visited,        \* detectCircularDependencies: visited
    recStack,       \* detectCircularDependencies: recStack
    dfsPath,        \* detectCircularDependencies: path
    circular,       \* detectCircularDependencies: circular
    frames,         \* the active dfs calls, innermost last: [node, next neighbour index]
    outer,          \* the index nodes.forEach has reached
    depResult,      \* dependencies: what the call returned or threw
    metricsCall,    \* scanner: the arguments of the last getProjectMetrics call
    metricsResult,  \* scanner: what that call returned or threw
    project,        \* coverage: the project on disk, [root, files] with files [name, lines]
    covCall,        \* coverage: whether analyzeTestCoverage was called
    covResult,      \* coverage: what analyzeTestCoverage returned
    smellCall,      \* smells: the arguments of the last detectCodeSmells call
    smellResult,    \* smells: what detectCodeSmells returned
    markers,        \* tech stack: the marker files in the project root
    packageJson,    \* tech stack: the parsed package.json, [valid, dependencies, devDependencies]
    pyproject,      \* tech stack: the text of pyproject.toml
    techCall,       \* tech stack: whether detectTechStack was called
    techResult,     \* tech stack: what detectTechStack returned
    requests,       \* concurrency: the requests in progress, each with its own locals
    changelog,      \* changelog tool: the text of CHANGELOG.md, empty when there is none
    changelogCalls, \* changelog tool: the update_changelog calls made, oldest first
    tools,          \* server: this.tools, tool name to handler
    responses       \* server: the outcome of each CallTool request, oldest first

scanVars == <<present, unreadable, scanCall, scanResult>>
parserVars == <<parserLoaded, parsers>>
cxVars == <<source, cxCall, cxResult>>
dfsVars == <<visited, recStack, dfsPath, circular, frames, outer>>
depVars == <<importsOf, depCall, depPc, depNodes, depEdges, dfsVars, depResult>>
metricsVars == <<metricsCall, metricsResult>>
covVars == <<project, covCall, covResult, smellCall, smellResult>>
techVars == <<markers, packageJson, pyproject, techCall, techResult>>
serverVars == <<changelog, changelogCalls, tools, responses>>
otherVars == <<metricsVars, covVars, techVars, requests, serverVars>>

(***************************************************************************)
(* Character-level helpers                                                 *)
(***************************************************************************)
SetMax(S) == CHOOSE x \in S : \A y \in S : y <= x

\* String.prototype.startsWith
StartsWith(s, p) == Len(s) >= Len(p) /\ SubSeq(s, 1, Len(p)) = p

\* String.prototype.includes
Includes(s, p) == \E i \in 1..(Len(s) - Len(p) + 1) : SubSeq(s, i, i + Len(p) - 1) = p

\* String.prototype.toLowerCase on the letters the model's names use
LowerChar(c) ==
    CASE c = "J" -> "j"
      [] c = "A" -> "a"
      [] c = "S" -> "s"
      [] c = "C" -> "c"
      [] OTHER -> c

ToLowerCase(s) == [i \in 1..Len(s) |-> LowerChar(s[i])]

\* String.prototype.trim
RECURSIVE TrimLeft(_)
TrimLeft(s) == IF s # <<>> /\ Head(s) = " " THEN TrimLeft(Tail(s)) ELSE s

RECURSIVE TrimRight(_)
TrimRight(s) == IF s # <<>> /\ s[Len(s)] = " " THEN TrimRight(SubSeq(s, 1, Len(s) - 1)) ELSE s

Trim(s) == TrimRight(TrimLeft(s))

KwFunction == <<"f", "u", "n", "c", "t", "i", "o", "n">>

RECURSIVE SumOver(_, _)
\* the sum of f over a set of integers
SumOver(S, f) ==
    IF S = {} THEN 0
    ELSE LET x == CHOOSE y \in S : TRUE IN f[x] + SumOver(S \ {x}, f)

(***************************************************************************)
(* The directory template.  Entry 0 is the project root; every other entry *)
(* is a file or directory that may or may not exist.  File sizes are       *)
(* distinct powers of two, so a byte total identifies the files it sums.   *)
(***************************************************************************)
Root == 0

Template ==
    [e \in 0..13 |->
        CASE e = 0 -> [name |-> <<"p">>, isDir |-> TRUE, size |-> 0,
                      kids |-> <<1, 2, 3, 4, 5, 6>>, parent |-> 0]
          [] e = 1 -> [name |-> <<"a", ".", "j", "s">>, isDir |-> FALSE, size |-> 1,
                      kids |-> <<>>, parent |-> 0]
          [] e = 2 -> [name |-> <<".", "e", "n", "v">>, isDir |-> FALSE, size |-> 2,
                      kids |-> <<>>, parent |-> 0]
          [] e = 3 -> [name |-> <<"n", ".", "t", "x", "t">>, isDir |-> FALSE, size |-> 4,
                      kids |-> <<>>, parent |-> 0]
          [] e = 4 -> [name |-> <<"s", "r", "c">>, isDir |-> TRUE, size |-> 0,
                      kids |-> <<7, 8, 9>>, parent |-> 0]
          [] e = 5 -> [name |-> <<"n", "o", "d", "e", "_", "m", "o", "d", "u", "l", "e", "s">>, isDir |-> TRUE, size |-> 0,
                      kids |-> <<10>>, parent |-> 0]
          [] e = 6 -> [name |-> <<"b", "u", "i", "l", "d">>, isDir |-> FALSE, size |-> 8,
                      kids |-> <<>>, parent |-> 0]
          [] e = 7 -> [name |-> <<"b", ".", "t", "s">>, isDir |-> FALSE, size |-> 16,
                      kids |-> <<>>, parent |-> 4]
          [] e = 8 -> [name |-> <<"C", ".", "J", "S">>, isDir |-> FALSE, size |-> 32,
                      kids |-> <<>>, parent |-> 4]
          [] e = 9 -> [name |-> <<"l", "i", "b">>, isDir |-> TRUE, size |-> 0,
                      kids |-> <<11, 12>>, parent |-> 4]
          [] e = 10 -> [name |-> <<"m", ".", "j", "s">>, isDir |-> FALSE, size |-> 64,
                      kids |-> <<>>, parent |-> 5]
          [] e = 11 -> [name |-> <<"d", ".", "p", "y">>, isDir |-> FALSE, size |-> 128,
                      kids |-> <<>>, parent |-> 9]
          [] e = 12 -> [name |-> <<"d", "i", "s", "t">>, isDir |-> TRUE, size |-> 0,
                      kids |-> <<13>>, parent |-> 9]
          [] e = 13 -> [name |-> <<"e", ".", "g", "o">>, isDir |-> FALSE, size |-> 256,
                      kids |-> <<>>, parent |-> 12]]

Entries == DOMAIN Template \ {Root}

\* Entries that exist together with their parent directory (a populated
\* node_modules, lib and dist directory): the rest exist independently.
Bundled == {10, 11, 13}

\* The entries whose stat or listing may fail.
MayFail == {2, 7, 9}

\* A path that names no directory on disk.
MissingPath == 99

EntryName(e) == Template[e].name
IsDirectory(e) == Template[e].isDir

\* fs.pathExists
pathExists(p) == p = Root \/ (p \in Entries /\ p \in present)

\* fs.readdir(directory, { withFileTypes: true }): the entries in listing order
readdir(directory) == SelectSeq(Template[directory].kids, LAMBDA e : e \in present)

\* fs.stat(fullPath) succeeds
Statable(e) == e \notin unreadable

\* fs.readdir(directory) succeeds: the directory exists and can be read
Listable(directory) ==
    /\ directory \in DOMAIN Template
    /\ pathExists(directory)
    /\ IsDirectory(directory)
    /\ directory \notin unreadable

(***************************************************************************)
(* Path & language classifier (utils/file-utils.ts)                        *)
(***************************************************************************)
\* path.extname: from the last '.' of the base name; a base name with no '.'
\* or whose only '.' is its first character has no extension.
ExtName(name) ==
    LET dots == {i \in 1..Len(name) : name[i] = "."}
    IN  IF dots = {} \/ SetMax(dots) = 1 THEN <<>>
        ELSE SubSeq(name, SetMax(dots), Len(name))

\* String.prototype.slice(1)
Slice1(s) == IF Len(s) <= 1 THEN <<>> ELSE SubSeq(s, 2, Len(s))

getFileExtension(name) == ToLowerCase(Slice1(ExtName(name)))

detectLanguage(name) ==
    LET ext == getFileExtension(name)
    IN  CASE ext = <<"j", "s">> -> "JavaScript"
          [] ext = <<"j", "s", "x">> -> "JavaScript"
          [] ext = <<"t", "s">> -> "TypeScript"
          [] ext = <<"t", "s", "x">> -> "TypeScript"
          [] ext = <<"p", "y">> -> "Python"
          [] ext = <<"j", "a", "v", "a">> -> "Java"
          [] ext = <<"g", "o">> -> "Go"
          [] ext = <<"r", "s">> -> "Rust"
          [] ext = <<"j", "s", "o", "n">> -> "JSON"
          [] ext = <<"m", "d">> -> "Markdown"
          [] ext = <<"h", "t", "m", "l">> -> "HTML"
          [] ext = <<"c", "s", "s">> -> "CSS"
          [] ext = <<"s", "c", "s", "s">> -> "SCSS"
          [] ext = <<"x", "m", "l">> -> "XML"
          [] ext = <<"y", "a", "m", "l">> -> "YAML"
          [] ext = <<"y", "m", "l">> -> "YAML"
          [] OTHER -> "Unknown"

(***************************************************************************)
(* Filesystem scanner (utils/file-utils.ts)                                *)
(***************************************************************************)
\* buildFileTree's skip test: hidden entries and the common ignore names
TreeSkips(name) ==
    \/ StartsWith(name, <<".">>)
    \/ name = <<"n", "o", "d", "e", "_", "m", "o", "d", "u", "l", "e", "s">>
    \/ name = <<"d", "i", "s", "t">>
    \/ name = <<"b", "u", "i", "l", "d">>

\* getDirectorySize's skip test, applied to directories only
SizeSkips(name) ==
    \/ name = <<"n", "o", "d", "e", "_", "m", "o", "d", "u", "l", "e", "s">>
    \/ name = <<"d", "i", "s", "t">>
    \/ name = <<"b", "u", "i", "l", "d">>

\* The throw of buildFileTree's catch block, after listing `listed`
TreeFailure(listed) == [ok |-> FALSE, nodes |-> <<>>, listed |-> listed]

FileNodeOf(e) ==
    [name |-> EntryName(e), path |-> e, type |-> "file", size |-> Template[e].size,
     extension |-> getFileExtension(EntryName(e)), language |-> detectLanguage(EntryName(e))]

DirectoryNodeOf(e, children) ==
    [name |-> EntryName(e), path |-> e, type |-> "directory", children |-> children]

RECURSIVE buildFileTree(_, _, _)
RECURSIVE BuildEntries(_, _, _, _, _, _)

\* The for loop of buildFileTree over the listed entries, from entry i on;
\* a failing stat or a failing recursive call aborts the whole build.
BuildEntries(entries, i, nodes, listed, maxDepth, currentDepth) ==
    IF i > Len(entries) THEN [ok |-> TRUE, nodes |-> nodes, listed |-> listed]
    ELSE LET e == entries[i] IN
         IF TreeSkips(EntryName(e))
         THEN BuildEntries(entries, i + 1, nodes, listed, maxDepth, currentDepth)
         ELSE IF IsDirectory(e)
         THEN LET sub == buildFileTree(e, maxDepth, currentDepth + 1) IN
              IF ~sub.ok THEN TreeFailure(listed \o sub.listed)
              ELSE BuildEntries(entries, i + 1, Append(nodes, DirectoryNodeOf(e, sub.nodes)),
                                listed \o sub.listed, maxDepth, currentDepth)
         ELSE IF ~Statable(e) THEN TreeFailure(listed)
              ELSE BuildEntries(entries, i + 1, Append(nodes, FileNodeOf(e)),
                                listed, maxDepth, currentDepth)

\* The depth guard with maxDepth read as the deepest level returned
DepthExhaustedInclusive(currentDepth, maxDepth) == currentDepth > maxDepth

\* The depth guard of buildFileTree
DepthExhausted(currentDepth, maxDepth) == currentDepth >= maxDepth

buildFileTree(directory, maxDepth, currentDepth) ==
    IF DepthExhausted(currentDepth, maxDepth)
    THEN [ok |-> TRUE, nodes |-> <<>>, listed |-> <<>>]
    ELSE IF ~Listable(directory) THEN TreeFailure(<<directory>>)
    ELSE BuildEntries(readdir(directory), 1, <<>>, <<directory>>, maxDepth, currentDepth)

RECURSIVE getDirectorySize(_)
RECURSIVE SizeEntries(_, _, _, _)

\* The for loop of getDirectorySize; a failing stat leaves the loop through
\* the catch block with the bytes summed so far.
SizeEntries(entries, i, totalSize, listed) ==
    IF i > Len(entries) THEN [size |-> totalSize, listed |-> listed]
    ELSE LET e == entries[i] IN
         IF IsDirectory(e)
         THEN IF SizeSkips(EntryName(e))
              THEN SizeEntries(entries, i + 1, totalSize, listed)
              ELSE LET sub == getDirectorySize(e) IN
                   SizeEntries(entries, i + 1, totalSize + sub.size, listed \o sub.listed)
         ELSE IF ~Statable(e) THEN [size |-> totalSize, listed |-> listed]
              ELSE SizeEntries(entries, i + 1, totalSize + Template[e].size, listed)

getDirectorySize(directory) ==
    IF ~Listable(directory) THEN [size |-> 0, listed |-> <<directory>>]
    ELSE SizeEntries(readdir(directory), 1, 0, <<directory>>)


(***************************************************************************)
(* FileAnalyzer (analyzers/file-analyzer.ts)                               *)
(***************************************************************************)
RECURSIVE countFiles(_)

\* countFiles without the recursion into children
countFilesTopLevel(nodes) ==
    Cardinality({i \in 1..Len(nodes) : nodes[i].type = "file"})

countFiles(nodes) ==
    IF nodes = <<>> THEN 0
    ELSE LET node == Head(nodes)
             here == IF node.type = "file" THEN 1
                     ELSE IF "children" \in DOMAIN node THEN countFiles(node.children)
                     ELSE 0
         IN  here + countFiles(Tail(nodes))

\* languageCounts.set(language, {files: current.files + 1, lines: current.lines}):
\* a Map keeps its keys in insertion order.
CountLanguage(counts, language) ==
    IF \E i \in 1..Len(counts) : counts[i].language = language
    THEN [i \in 1..Len(counts) |->
            IF counts[i].language = language
            THEN [counts[i] EXCEPT !.files = @ + 1]
            ELSE counts[i]]
    ELSE Append(counts, [language |-> language, files |-> 1, lines |-> 0])

\* The test of processNodeSync without the exclusion of 'Unknown'
IsClassifiedAnyLanguage(node) ==
    /\ node.type = "file"
    /\ "language" \in DOMAIN node

\* The test of processNodeSync for a node that is counted
IsClassified(node) ==
    /\ node.type = "file"
    /\ "language" \in DOMAIN node
    /\ node.language # "Unknown"

RECURSIVE processNodeSync(_, _)
\* processNodeSync applied to each node of `nodes` in order
processNodeSync(nodes, counts) ==
    IF nodes = <<>> THEN counts
    ELSE LET node == Head(nodes)
             own == IF IsClassified(node) THEN CountLanguage(counts, node.language) ELSE counts
             sub == IF "children" \in DOMAIN node THEN processNodeSync(node.children, own) ELSE own
         IN  processNodeSync(Tail(nodes), sub)

RECURSIVE SumFiles(_)
SumFiles(counts) == IF counts = <<>> THEN 0 ELSE Head(counts).files + SumFiles(Tail(counts))

\* (stats.files / totalFiles) * 100, kept as the exact quotient num / den
Percentage(files, totalFiles) ==
    IF totalFiles > 0 THEN [num |-> files * 100, den |-> totalFiles]
    ELSE [num |-> 0, den |-> 1]

analyzeLanguages(nodes) ==
    LET languageCounts == processNodeSync(nodes, <<>>)
        totalFiles == SumFiles(languageCounts)
    IN  [i \in 1..Len(languageCounts) |->
            [language |-> languageCounts[i].language,
             files |-> languageCounts[i].files,
             lines |-> languageCounts[i].lines,
             percentage |-> Percentage(languageCounts[i].files, totalFiles)]]

\* analyzeProjectStructure without its existence check
ProjectPathUnchecked(projectPath) == TRUE

\* The existence check that opens analyzeProjectStructure
ProjectPathExists(projectPath) == pathExists(projectPath)

\* analyzeProjectStructure: the ProjectStructure returned, or the error thrown,
\* with the directories listed on the way.
analyzeProjectStructure(projectPath, maxDepth) ==
    IF ~ProjectPathExists(projectPath)
    THEN [status |-> "error", message |-> "Project path does not exist", listed |-> <<>>]
    ELSE LET tree == buildFileTree(projectPath, maxDepth, 0) IN
         IF ~tree.ok
         THEN [status |-> "error", message |-> "Failed to build file tree", listed |-> tree.listed]
         ELSE LET total == getDirectorySize(projectPath) IN
              [status |-> "ok",
               path |-> projectPath,
               files |-> tree.nodes,
               totalFiles |-> countFiles(tree.nodes),
               totalSize |-> total.size,
               languages |-> analyzeLanguages(tree.nodes),
               listed |-> tree.listed \o total.listed]

(***************************************************************************)
(* Scanner: bounds, initial states and actions                             *)
(***************************************************************************)
\* The largest maxDepth a call passes explicitly
MaxDepthArg == 3

\* The most entries that are unreadable at once
MaxUnreadable == 1

\* maxDepth: number = 10, and `args.depth || 10` in the tool handler
DefaultMaxDepth == 10

ProjectPaths == {Root, MissingPath}

ParentClosed(S) ==
    /\ \A e \in S : Template[e].parent \in S \cup {Root}
    /\ \A e \in Bundled : e \in S <=> Template[e].parent \in S

ScanIdle ==
    /\ scanCall = [made |-> FALSE]
    /\ scanResult = [status |-> "none", listed |-> <<>>]

ScanInit ==
    /\ present \in {S \in SUBSET Entries : ParentClosed(S)}
    /\ unreadable \in {U \in SUBSET (MayFail \cap present) : Cardinality(U) <= MaxUnreadable}
    /\ ScanIdle

\* A direct call of FileAnalyzer.analyzeProjectStructure(projectPath, maxDepth)
AnalyzeProjectStructure(projectPath, maxDepth) ==
    /\ scanCall' = [made |-> TRUE, path |-> projectPath, maxDepth |-> maxDepth]
    /\ scanResult' = analyzeProjectStructure(projectPath, maxDepth)
    /\ UNCHANGED <<present, unreadable, parserVars, cxVars, depVars, otherVars>>

\* The analyze_project_structure tool handler: args.depth || 10 (rendering of
\* the structure as text is left out).
EffectiveDepth(args) ==
    IF "depth" \in DOMAIN args /\ args.depth # 0 THEN args.depth ELSE DefaultMaxDepth

ToolAnalyzeProjectStructure(args) ==
    AnalyzeProjectStructure(args.path, EffectiveDepth(args))

ToolArgs ==
    [path : ProjectPaths] \cup [path : ProjectPaths, depth : 0..MaxDepthArg]

ScanNext ==
    \/ \E p \in ProjectPaths, d \in 0..MaxDepthArg : AnalyzeProjectStructure(p, d)
    \/ \E args \in ToolArgs : ToolAnalyzeProjectStructure(args)


(***************************************************************************)
(* FileAnalyzer.getProjectMetrics (analyzers/file-analyzer.ts)             *)
(***************************************************************************)
\* content.split('\n').length of each file of the template
FileLines ==
    [e \in Entries |->
        CASE e = 1 -> 2
          [] e = 3 -> 3
          [] e = 7 -> 4
          [] e = 8 -> 1
          [] e = 11 -> 5
          [] OTHER -> 1]

\* The files whose content may fail to be read although their stat succeeds
MayFailRead == {1, 3}

RECURSIVE collectFileStats(_, _, _)
\* collectFileStats: the stats of the file nodes in tree order; a file whose
\* getFileStats throws is skipped
collectFileStats(nodes, fileStats, failing) ==
    IF nodes = <<>> THEN fileStats
    ELSE LET node == Head(nodes)
             own == IF node.type = "file"
                    THEN (IF node.path \in failing THEN fileStats
                          ELSE Append(fileStats, [path |-> node.path, size |-> node.size,
                                                  lines |-> FileLines[node.path]]))
                    ELSE IF "children" \in DOMAIN node
                    THEN collectFileStats(node.children, fileStats, failing)
                    ELSE fileStats
         IN  collectFileStats(Tail(nodes), own, failing)

RECURSIVE SumLines(_)
\* fileStats.reduce((sum, file) => sum + file.lines, 0)
SumLines(fileStats) ==
    IF fileStats = <<>> THEN 0 ELSE Head(fileStats).lines + SumLines(Tail(fileStats))

\* languageLines.get(language) || 0: the lines of the read files of a language
LanguageLines(fileStats, language) ==
    SumLines(SelectSeq(fileStats, LAMBDA file : detectLanguage(EntryName(file.path)) = language))

\* The denominator of the line percentages: totalLines, over every read file
PercentageBase(fileStats) == SumLines(fileStats)

\* totalSize / totalFiles and (lines / totalLines) * 100 as exact quotients
Quotient(num, den) == IF den > 0 THEN [num |-> num, den |-> den] ELSE [num |-> 0, den |-> 1]

RECURSIVE InsertBySize(_, _)
InsertBySize(sorted, file) ==
    IF sorted = <<>> THEN <<file>>
    ELSE IF Head(sorted).size >= file.size THEN <<Head(sorted)>> \o InsertBySize(Tail(sorted), file)
    ELSE <<file>> \o sorted

RECURSIVE SortBySizeDescending(_)
\* fileStats.sort((a, b) => b.size - a.size): stable, largest first
SortBySizeDescending(fileStats) ==
    IF fileStats = <<>> THEN <<>>
    ELSE InsertBySize(SortBySizeDescending(SubSeq(fileStats, 1, Len(fileStats) - 1)),
                      fileStats[Len(fileStats)])

\* .slice(0, 10)
LargestFilesLimit == 10

getProjectMetrics(projectPath, failing) ==
    LET structure == analyzeProjectStructure(projectPath, DefaultMaxDepth) IN
    IF structure.status # "ok" THEN [status |-> "error", message |-> structure.message]
    ELSE LET fileStats == collectFileStats(structure.files, <<>>, failing)
             totalLines == SumLines(fileStats)
             totalFiles == Len(fileStats)
             sorted == SortBySizeDescending(fileStats)
         IN  [status |-> "ok",
              totalLines |-> totalLines,
              totalFiles |-> totalFiles,
              totalSize |-> structure.totalSize,
              languages |->
                  [i \in 1..Len(structure.languages) |->
                      LET lang == structure.languages[i]
                          lines == LanguageLines(fileStats, lang.language)
                      IN  [language |-> lang.language, files |-> lang.files, lines |-> lines,
                           percentage |-> Quotient(lines * 100, PercentageBase(fileStats))]],
              averageFileSize |-> Quotient(structure.totalSize, totalFiles),
              largestFiles |-> SubSeq(sorted, 1, IF Len(sorted) < LargestFilesLimit
                                                 THEN Len(sorted) ELSE LargestFilesLimit)]

MetricsIdle ==
    /\ metricsCall = [made |-> FALSE]
    /\ metricsResult = [status |-> "none"]

\* A call of FileAnalyzer.getProjectMetrics(projectPath); `failing` are the
\* files whose content cannot be read during the call
GetProjectMetrics(projectPath, failing) ==
    /\ metricsCall' = [made |-> TRUE, path |-> projectPath, failing |-> failing]
    /\ metricsResult' = getProjectMetrics(projectPath, failing)
    /\ UNCHANGED <<scanVars, parserVars, cxVars, depVars, covVars, techVars, requests, serverVars>>

MetricsNext ==
    \E p \in ProjectPaths, failing \in SUBSET MayFailRead : GetProjectMetrics(p, failing)

(***************************************************************************)
(* CodeAnalyzer.analyzeTestCoverage and the large-file detector of         *)
(* detectCodeSmells (analyzers/file-analyzer.ts)                           *)
(***************************************************************************)
\* ['*.js', '*.jsx', '*.ts', '*.tsx', '*.py', '*.java', '*.go', '*.rs']
CodePatterns == <<<<".", "j", "s">>, <<".", "j", "s", "x">>, <<".", "t", "s">>, <<".", "t", "s", "x">>, <<".", "p", "y">>, <<".", "j", "a", "v", "a">>, <<".", "g", "o">>, <<".", "r", "s">>>>

\* ['*.test.js', '*.test.ts', '*.spec.js', '*.spec.ts', '*_test.py',
\*  '*Test.java', '*_test.go', '*_test.rs']
TestPatterns ==
    <<<<".", "t", "e", "s", "t", ".", "j", "s">>, <<".", "t", "e", "s", "t", ".", "t", "s">>, <<".", "s", "p", "e", "c", ".", "j", "s">>, <<".", "s", "p", "e", "c", ".", "t", "s">>, <<"_", "t", "e", "s", "t", ".", "p", "y">>, <<"T", "e", "s", "t", ".", "j", "a", "v", "a">>, <<"_", "t", "e", "s", "t", ".", "g", "o">>, <<"_", "t", "e", "s", "t", ".", "r", "s">>>>

EndsWith(s, p) == Len(s) >= Len(p) /\ SubSeq(s, Len(s) - Len(p) + 1, Len(s)) = p

\* glob('*<suffix>', {cwd}): the pattern has no directory part, so it matches
\* entries of the directory itself, and `*` does not match a leading dot
GlobMatches(name, suffix) == ~StartsWith(name, <<".">>) /\ EndsWith(name, suffix)

\* the absolute path of an entry of the project root
AbsolutePath(name) == project.root \o <<"/">> \o name

RECURSIVE Unique(_)
\* [...new Set(allFiles)]: the first occurrence of each path, in order
Unique(paths) ==
    IF paths = <<>> THEN <<>>
    ELSE LET front == Unique(SubSeq(paths, 1, Len(paths) - 1))
             last == paths[Len(paths)]
         IN  IF \E i \in 1..Len(front) : front[i] = last THEN front ELSE Append(front, last)

RECURSIVE GlobAll(_, _)
GlobAll(patterns, names) ==
    IF patterns = <<>> THEN <<>>
    ELSE SelectSeq(names, LAMBDA name : GlobMatches(name, Head(patterns)))
         \o GlobAll(Tail(patterns), names)

\* findFiles(projectPath, patterns): pattern by pattern, duplicates removed
findFiles(patterns) ==
    LET names == [i \in 1..Len(project.files) |-> project.files[i].name]
        found == Unique(GlobAll(patterns, names))
    IN  [i \in 1..Len(found) |-> AbsolutePath(found[i])]

\* String.prototype.replace(/(a|b|...)$/, ''): the matching suffix removed
StripSuffix(s, suffixes) ==
    IF \E p \in suffixes : EndsWith(s, p)
    THEN LET p == CHOOSE q \in suffixes : EndsWith(s, q) IN SubSeq(s, 1, Len(s) - Len(p))
    ELSE s

\* the base a test file is entered under in testFileMap
TestBase(f) ==
    StripSuffix(StripSuffix(StripSuffix(f, {<<".", "t", "e", "s", "t", ".", "j", "s">>, <<".", "t", "e", "s", "t", ".", "t", "s">>, <<".", "s", "p", "e", "c", ".", "j", "s">>, <<".", "s", "p", "e", "c", ".", "t", "s">>}),
                            {<<"_", "t", "e", "s", "t", ".", "p", "y">>, <<"_", "t", "e", "s", "t", ".", "g", "o">>, <<"_", "t", "e", "s", "t", ".", "r", "s">>}),
                {<<"T", "e", "s", "t", ".", "j", "a", "v", "a">>})

\* file.replace(/\.(js|ts|jsx|tsx|py|java|go|rs)$/, '')
CodeBase(file) == StripSuffix(file, {CodePatterns[i] : i \in 1..Len(CodePatterns)})

\* !file.includes('.test.') && !file.includes('.spec.') &&
\* !file.includes('_test') && !file.includes('Test.java')
NotATestName(file) ==
    /\ ~Includes(file, <<".", "t", "e", "s", "t", ".">>)
    /\ ~Includes(file, <<".", "s", "p", "e", "c", ".">>)
    /\ ~Includes(file, <<"_", "t", "e", "s", "t">>)
    /\ ~Includes(file, <<"T", "e", "s", "t", ".", "j", "a", "v", "a">>)

\* testFileMap.has(base) with every file taken as covered
IsCoveredAlways(testFileMap, file) == TRUE

\* testFileMap.has(base)
IsCovered(testFileMap, file) == CodeBase(file) \in testFileMap

\* the covered share as a fraction of 1
CoverageFraction(covered, total) == Quotient(covered, total)

\* total > 0 ? (covered / total) * 100 : 0
CoveragePercentage(covered, total) == Quotient(covered * 100, total)

analyzeTestCoverage ==
    LET codeFiles == findFiles(CodePatterns)
        testFiles == findFiles(TestPatterns)
        testFileMap == {TestBase(testFiles[i]) : i \in 1..Len(testFiles)}
        coveredFiles == SelectSeq(codeFiles, LAMBDA file : IsCovered(testFileMap, file))
        missingFiles == SelectSeq(codeFiles, LAMBDA file :
                            ~IsCovered(testFileMap, file) /\ NotATestName(file))
    IN  [status |-> "ok",
         total |-> Len(codeFiles),
         covered |-> Len(coveredFiles),
         percentage |-> CoveragePercentage(Len(coveredFiles), Len(codeFiles)),
         files |-> [i \in 1..Len(codeFiles) |->
                       [file |-> codeFiles[i],
                        coverage |-> IF IsCovered(testFileMap, codeFiles[i]) THEN 100 ELSE 0]],
         missing |-> missingFiles]

\* \s, \d and \w of the regular expressions, on the characters of the model's lines
WhiteSpace == {" "}

DigitChars == {"0", "1", "2", "3", "4", "5", "6", "7", "8", "9"}

WordChars == DigitChars \cup {"_", "a", "b", "c", "d", "e", "f", "g", "h", "i", "j", "k", "l", "m", "n", "o", "p", "q", "r", "s", "t", "u", "v", "w", "x", "y", "z", "A", "B", "C", "D", "E", "F", "G", "H", "I", "J", "K", "L", "M", "N", "O", "P", "Q", "R", "S", "T", "U", "V", "W", "X", "Y", "Z"}

\* Regular expressions as sets of positions: the positions a match can have
\* reached, so that every way of matching is followed
AtLit(s, p, lit) == p + Len(lit) - 1 <= Len(s) /\ SubSeq(s, p, p + Len(lit) - 1) = lit

Lit(s, P, lit) == {p + Len(lit) : p \in {q \in P : AtLit(s, q, lit)}}

AnyLit(s, P, lits) == UNION {Lit(s, P, lit) : lit \in lits}

\* class*
Star(s, P, class) ==
    {q \in 1..(Len(s) + 1) : \E p \in P : p <= q /\ \A k \in p..(q - 1) : s[k] \in class}

\* class+
Plus(s, P, class) ==
    {q \in 1..(Len(s) + 1) : \E p \in P : p < q /\ \A k \in p..(q - 1) : s[k] \in class}

isFunctionStart(line, language) ==
    LET trimmed == Trim(line)
        S(P) == Plus(trimmed, P, WhiteSpace)
        W(P) == Plus(trimmed, P, WordChars)
        L(P, lit) == Lit(trimmed, P, lit)
    IN  CASE language \in {"JavaScript", "TypeScript"} ->
               LET decl == {KwFunction, <<"c", "o", "n", "s", "t">>, <<"l", "e", "t">>}
                   export == S(L({1}, <<"e", "x", "p", "o", "r", "t">>))
                   keyword == AnyLit(trimmed, {1}, decl) \cup AnyLit(trimmed, export, decl)
                              \cup L(S(L({1}, <<"a", "s", "y", "n", "c">>)), KwFunction)
               IN  \/ W(S(keyword)) # {}
                   \/ L(S(L(export, <<"d", "e", "f", "a", "u", "l", "t">>)), KwFunction) # {}
          [] language = "Python" ->
               \/ W(S(L({1}, <<"d", "e", "f">>))) # {}
               \/ W(S(L(S(L({1}, <<"a", "s", "y", "n", "c">>)), <<"d", "e", "f">>))) # {}
          [] language = "Java" ->
               LET lead == Star(trimmed, {1}, WhiteSpace)
                   access == Star(trimmed, lead \cup AnyLit(trimmed, lead, {<<"p", "u", "b", "l", "i", "c">>, <<"p", "r", "i", "v", "a", "t", "e">>, <<"p", "r", "o", "t", "e", "c", "t", "e", "d">>}),
                                  WhiteSpace)
                   static == Star(trimmed, access \cup L(access, <<"s", "t", "a", "t", "i", "c">>), WhiteSpace)
                   named == Star(trimmed, W(S(W(static))), WhiteSpace)
               IN  L(named, <<"(">>) # {}
          [] language = "Go" -> S(L({1}, <<"f", "u", "n", "c">>)) # {}
          [] language = "Rust" ->
               \/ W(S(L({1}, <<"f", "n">>))) # {}
               \/ W(S(L(S(L({1}, <<"p", "u", "b">>)), <<"f", "n">>))) # {}
          [] OTHER -> FALSE

\* (line.match(/c/g) || []).length
CountChar(line, c) == Cardinality({k \in 1..Len(line) : line[k] = c})

LongMethodThreshold == 50
LongMethodHigh == 100

RECURSIVE BraceCounts(_, _, _)
\* braceCount after each of the lines i..j, counted from zero before line i
\* (the two halves of the range are counted apart and the second is shifted)
BraceCounts(lines, i, j) ==
    IF i > j THEN <<>>
    ELSE IF i = j THEN <<CountChar(lines[i], "{") - CountChar(lines[i], "}")>>
    ELSE LET middle == (i + j) \div 2
             left == BraceCounts(lines, i, middle)
             right == BraceCounts(lines, middle + 1, j)
         IN  left \o [k \in 1..Len(right) |-> right[k] + left[Len(left)]]

\* The inner loop from the start line i (1-based) on, inFunction being set by
\* that line: the functionLength at which it breaks, 0 when it runs out of lines
FunctionLength(lines, i) ==
    LET braceCount == BraceCounts(lines, i, Len(lines))
        breaks == {length \in 2..Len(braceCount) : braceCount[length] = 0}
    IN  IF breaks = {} THEN 0 ELSE CHOOSE length \in breaks : \A other \in breaks : length <= other

\* the 1-based indexes of the lines that start a function, in order
FunctionStarts(lines, language) ==
    SelectSeq([i \in 1..Len(lines) |-> i], LAMBDA i : isFunctionStart(lines[i], language))

\* Long method detection
LongMethods(file, lines, language) ==
    LET long == SelectSeq(FunctionStarts(lines, language),
                          LAMBDA i : FunctionLength(lines, i) > LongMethodThreshold)
    IN  [k \in 1..Len(long) |->
            LET functionLength == FunctionLength(lines, long[k]) IN
            [type |-> "Long Method",
             severity |-> IF functionLength > LongMethodHigh THEN "high" ELSE "medium",
             file |-> file,
             line |-> long[k],
             length |-> functionLength]]

\* line.match(/\b\d{3,}\b/g): the start positions of the words of three or
\* more characters that are all digits
MagicMatches(line) ==
    LET IsWord(k) == k >= 1 /\ k <= Len(line) /\ line[k] \in WordChars
        WordEnd(p) == CHOOSE q \in p..Len(line) :
                          /\ \A k \in p..q : line[k] \in WordChars
                          /\ ~IsWord(q + 1)
    IN  SelectSeq([p \in 1..Len(line) |-> p],
                  LAMBDA p : /\ line[p] \in DigitChars
                             /\ ~IsWord(p - 1)
                             /\ WordEnd(p) >= p + 2
                             /\ \A k \in p..WordEnd(p) : line[k] \in DigitChars)

\* the word that starts at position p
WordAt(line, p) ==
    SubSeq(line, p, CHOOSE q \in p..Len(line) :
                        /\ \A k \in p..q : line[k] \in WordChars
                        /\ (q = Len(line) \/ line[q + 1] \notin WordChars))

DigitValue(c) ==
    CASE c = "0" -> 0 [] c = "1" -> 1 [] c = "2" -> 2 [] c = "3" -> 3 [] c = "4" -> 4
      [] c = "5" -> 5 [] c = "6" -> 6 [] c = "7" -> 7 [] c = "8" -> 8 [] c = "9" -> 9

RECURSIVE ParseInt(_)
\* parseInt of a string of digits
ParseInt(digits) ==
    IF digits = <<>> THEN 0
    ELSE 10 * ParseInt(SubSeq(digits, 1, Len(digits) - 1)) + DigitValue(digits[Len(digits)])

\* the magic numbers of one line, in match order
MagicNumbersOfLine(file, lines, index) ==
    LET line == lines[index]
        reported == IF \/ Includes(line, <<"/", "/">>)
                       \/ Includes(line, <<"c", "o", "n", "s", "t">>)
                       \/ Includes(line, <<"l", "e", "t">>)
                    THEN <<>>
                    ELSE SelectSeq(MagicMatches(line), LAMBDA p : ParseInt(WordAt(line, p)) > 10)
    IN  [k \in 1..Len(reported) |->
            [type |-> "Magic Number", severity |-> "low", file |-> file, line |-> index,
             match |-> WordAt(line, reported[k])]]

RECURSIVE MagicNumbersOfLines(_, _, _)
MagicNumbersOfLines(file, lines, indexes) ==
    IF indexes = <<>> THEN <<>>
    ELSE MagicNumbersOfLine(file, lines, Head(indexes))
         \o MagicNumbersOfLines(file, lines, Tail(indexes))

\* Magic numbers: lines.forEach over the lines that have a match
MagicNumbers(file, lines) ==
    MagicNumbersOfLines(file, lines,
        SelectSeq([i \in 1..Len(lines) |-> i], LAMBDA i : MagicMatches(lines[i]) # <<>>))

RECURSIVE Tokens(_)
\* the maximal whitespace-free pieces of a line, in order
Tokens(line) ==
    LET text == TrimLeft(line) IN
    IF text = <<>> THEN <<>>
    ELSE LET stops == {k \in 1..Len(text) : text[k] \in WhiteSpace}
             end == IF stops = {} THEN Len(text) + 1 ELSE CHOOSE k \in stops : \A m \in stops : k <= m
         IN  <<SubSeq(text, 1, end - 1)>> \o Tokens(SubSeq(text, end, Len(text)))

RECURSIVE TokensOfLines(_, _, _)
TokensOfLines(lines, from, to) ==
    IF from > to THEN <<>> ELSE Tokens(lines[from]) \o TokensOfLines(lines, from + 1, to)

DuplicateWindow == 20

\* lines.slice(i, i + 20).join('\n').replace(/\s+/g, ' ').trim(), kept as its
\* whitespace-free pieces: the pieces joined by single spaces are that string
NormalizedBody(lines, i) ==
    TokensOfLines(lines, i, IF i + DuplicateWindow - 1 < Len(lines) THEN i + DuplicateWindow - 1 ELSE Len(lines))

\* Duplicate code detection: a function start whose body an earlier function
\* start stored in functionBodies
DuplicateCode(file, lines, language) ==
    LET starts == FunctionStarts(lines, language)
        Earlier(k) == {m \in 1..(k - 1) : NormalizedBody(lines, starts[m]) = NormalizedBody(lines, starts[k])}
        repeated == SelectSeq([k \in 1..Len(starts) |-> k], LAMBDA k : Earlier(k) # {})
    IN  [n \in 1..Len(repeated) |->
            [type |-> "Duplicate Code", severity |-> "medium", file |-> file,
             line |-> starts[repeated[n]],
             existing |-> starts[CHOOSE m \in Earlier(repeated[n]) : \A o \in Earlier(repeated[n]) : m <= o]]]

LargeFileThreshold == 500
LargeFileHigh == 1000

\* Large file detection
LargeFile(file, lines) ==
    IF Len(lines) > LargeFileThreshold
    THEN <<[type |-> "Large File",
            severity |-> IF Len(lines) > LargeFileHigh THEN "high" ELSE "medium",
            file |-> file,
            lines |-> Len(lines)]>>
    ELSE <<>>

\* the detectors run whatever the types argument is
EnabledAlways(args, type) == TRUE

\* a detector runs: !types || types.includes(type)
Enabled(args, type) ==
    "types" \notin DOMAIN args \/ \E i \in 1..Len(args.types) : args.types[i] = type

\* The body of the try block for one file
SmellsOfFile(file, lines, args) ==
    LET language == detectLanguage(file) IN
    (IF Enabled(args, "long-method") THEN LongMethods(file, lines, language) ELSE <<>>)
    \o (IF Enabled(args, "magic-number") THEN MagicNumbers(file, lines) ELSE <<>>)
    \o (IF Enabled(args, "duplicate-code") THEN DuplicateCode(file, lines, language) ELSE <<>>)
    \o (IF Enabled(args, "large-file") THEN LargeFile(file, lines) ELSE <<>>)

\* content.split('\n') of a file kept as runs of equal lines
Lines(content) ==
    LET Through(b) == SumOver(1..b, [k \in 1..Len(content) |-> content[k].repeat])
    IN  [i \in 1..Through(Len(content)) |->
            content[CHOOSE b \in 1..Len(content) : Through(b - 1) < i /\ i <= Through(b)].line]

\* the entry of the project root that has the given absolute path
EntryAt(file) ==
    project.files[CHOOSE i \in 1..Len(project.files) : AbsolutePath(project.files[i].name) = file]

RECURSIVE SmellsOfFiles(_, _)
\* the loop over the files: a file whose read throws is skipped
SmellsOfFiles(files, args) ==
    IF files = <<>> THEN <<>>
    ELSE (IF EntryAt(Head(files)).readable
          THEN SmellsOfFile(Head(files), Lines(EntryAt(Head(files)).content), args)
          ELSE <<>>)
         \o SmellsOfFiles(Tail(files), args)

detectCodeSmells(args) == SmellsOfFiles(findFiles(CodePatterns), args)

LineCall == <<" ", " ", "x", "(", ")", ";">>
LineBrace == <<" ", " ", "}">>

\* The directory names a project root may have, and the entries of the root
\* in listing order
RootPaths == {<<"/", "p">>, <<"/", "q", "_", "t", "e", "s", "t">>}

FileNamePool ==
    <<<<"a", ".", "j", "s">>, <<"a", ".", "p", "y">>, <<"a", ".", "t", "e", "s", "t", ".", "j", "s">>, <<"b", ".", "s", "p", "e", "c", ".", "t", "s">>, <<"b", ".", "t", "s">>, <<"c", "_", "t", "e", "s", "t", ".", "g", "o">>, <<"d", "_", "t", "e", "s", "t", "e", "r", ".", "j", "s">>, <<"n", ".", "t", "x", "t">>>>

\* content.split('\n').length of each file of the pool
PoolLines == <<600, 1, 1, 1, 1, 1, 1, 600>>

Projects ==
    {[root |-> root,
      files |-> [i \in 1..Len(picked) |->
                    [name |-> FileNamePool[picked[i]],
                     content |-> <<[line |-> LineCall, repeat |-> PoolLines[picked[i]]]>>,
                     readable |-> TRUE]]] :
        root \in RootPaths,
        picked \in {SelectSeq([i \in 1..Len(FileNamePool) |-> i], LAMBDA i : i \in S) :
                       S \in SUBSET (1..Len(FileNamePool))}}

NoProject == [root |-> <<"/", "p">>, files |-> <<>>]

CovIdle ==
    /\ covCall = [made |-> FALSE]
    /\ covResult = [status |-> "none"]
    /\ smellCall = [made |-> FALSE]
    /\ smellResult = <<>>

SmellTypes == <<"long-method", "magic-number", "duplicate-code", "large-file">>

\* the types argument: absent, empty, or some of the four types in any order
SmellArgs ==
    {<<>>} \cup [types : {<<>>, <<"large-file">>, <<"long-method">>, <<"magic-number">>,
                          <<"duplicate-code", "long-method">>,
                          <<"large-file", "magic-number", "long-method">>,
                          <<"style">>}]

LineFunctionF == <<"f", "u", "n", "c", "t", "i", "o", "n", " ", "f", "(", ")", " ", "{">>
LineHead == <<"f", "u", "n", "c", "t", "i", "o", "n", " ", "f", "(", ")">>
LineOpen == <<"{">>
LineSignature == <<"f", "u", "n", "c", "t", "i", "o", "n", " ", "f", "(">>
LineParameter == <<" ", " ", "a", ",">>
LineSignatureEnd == <<" ", " ", "b", ")", " ", "{">>
LineOneLiner == <<"f", "u", "n", "c", "t", "i", "o", "n", " ", "f", "(", ")", " ", "{", "}">>
LineMagic == <<" ", " ", "y", "(", "1", "2", "3", "4", ",", " ", "0", "0", "7", ",", " ", "1", "2", ",", " ", "a", "1", "2", "3", ")", ";">>
LineConstMagic == <<"c", "o", "n", "s", "t", " ", "z", " ", "=", " ", "5", "0", "0", ";">>
LineCommentMagic == <<" ", " ", "t", "(", "9", "9", "9", ")", ";", " ", "/", "/", " ", "n", "o", "t", "e">>

Run(line, repeat) == [line |-> line, repeat |-> repeat]

\* File contents: functions of 50, 51, 100 and 101 lines with the opening
\* brace on the first, the second or a later line, a function that is never
\* closed, a one-line function, numbers, a repeated function, and files of
\* 500, 501, 1000 and 1001 lines
SmellContents ==
    {<<Run(LineFunctionF, 1), Run(LineCall, k), Run(LineBrace, 1)>> : k \in {48, 49, 98, 99}}
    \cup {<<Run(LineHead, 1), Run(LineOpen, 1), Run(LineCall, k), Run(LineBrace, 1)>> : k \in {47, 48}}
    \cup {<<Run(LineSignature, 1), Run(LineParameter, 1), Run(LineSignatureEnd, 1),
            Run(LineCall, 60), Run(LineBrace, 1)>>,
          <<Run(LineFunctionF, 1), Run(LineCall, 60)>>,
          <<Run(LineOneLiner, 1), Run(LineCall, 60)>>,
          <<Run(LineMagic, 1), Run(LineConstMagic, 1), Run(LineCommentMagic, 1), Run(LineMagic, 1)>>,
          <<Run(LineFunctionF, 1), Run(LineCall, 19), Run(LineBrace, 1),
            Run(LineFunctionF, 1), Run(LineCall, 19), Run(LineBrace, 1)>>,
          <<Run(LineCall, 450), Run(LineFunctionF, 1), Run(LineMagic, 2), Run(LineCall, 58),
            Run(LineBrace, 1)>>}
    \cup {<<Run(LineCall, n)>> : n \in {500, 501, 1000, 1001}}

\* a second file of the project
SecondFiles ==
    {[name |-> <<"b", ".", "t", "s">>, content |-> <<Run(LineMagic, 1)>>, readable |-> TRUE],
     [name |-> <<"b", ".", "t", "s">>, content |-> <<Run(LineCall, 501)>>, readable |-> FALSE],
     [name |-> <<"a", ".", "t", "e", "s", "t", ".", "j", "s">>,
      content |-> <<Run(LineFunctionF, 1), Run(LineCall, 60), Run(LineBrace, 1)>>, readable |-> TRUE]}

SmellProjects ==
    {[root |-> <<"/", "p">>, files |-> <<first>> \o rest] :
        first \in [name : {<<"a", ".", "j", "s">>}, content : SmellContents, readable : BOOLEAN],
        rest \in {<<>>} \cup {<<second>> : second \in SecondFiles}}

\* A call of CodeAnalyzer.analyzeTestCoverage(projectPath)
AnalyzeTestCoverage ==
    /\ covCall' = [made |-> TRUE]
    /\ covResult' = analyzeTestCoverage
    /\ UNCHANGED <<project, smellCall, smellResult, scanVars, parserVars, cxVars, depVars,
                   metricsVars, techVars, requests, serverVars>>

\* A call of CodeAnalyzer.detectCodeSmells(projectPath, types?)
DetectCodeSmells(args) ==
    /\ smellCall' = [made |-> TRUE, args |-> args]
    /\ smellResult' = detectCodeSmells(args)
    /\ UNCHANGED <<project, covCall, covResult, scanVars, parserVars, cxVars, depVars,
                   metricsVars, techVars, requests, serverVars>>

CovNext ==
    \/ AnalyzeTestCoverage
    \/ DetectCodeSmells(<<>>)

SmellNext == \E args \in SmellArgs : DetectCodeSmells(args)

(***************************************************************************)
(* DependencyAnalyzer.detectTechStack (analyzers/dependency-analyzer.ts)   *)
(***************************************************************************)
\* new Set(...).add(x) followed by Array.from: insertion order, no duplicates
AddAll(seq, xs) ==
    LET fresh == SelectSeq(xs, LAMBDA x : \A i \in 1..Len(seq) : seq[i] # x)
    IN  seq \o fresh

\* { ...packageJson.dependencies, ...packageJson.devDependencies }
SpreadDeps(json) ==
    [k \in DOMAIN json.dependencies \cup DOMAIN json.devDependencies |->
        IF k \in DOMAIN json.devDependencies THEN json.devDependencies[k]
        ELSE json.dependencies[k]]

\* if (deps.key): the key is present and its value is truthy
Truthy(deps, key) == key \in DOMAIN deps /\ deps[key] # ""

\* the labels added for the keys of `table` that pass the test, in table order
Detected(deps, table) ==
    LET hits == SelectSeq(table, LAMBDA row : Truthy(deps, row[1]))
    IN  [i \in 1..Len(hits) |-> hits[i][2]]

FrameworkKeys ==
    <<<<"react", "React">>, <<"vue", "Vue">>, <<"angular", "Angular">>,
      <<"express", "Express">>, <<"next", "Next.js">>, <<"@nestjs/core", "NestJS">>>>

TestFrameworkKeys == <<<<"jest", "Jest">>, <<"mocha", "Mocha">>, <<"vitest", "Vitest">>>>

PythonFrameworks ==
    <<<<<<"d", "j", "a", "n", "g", "o">>, "Django">>, <<<<"f", "l", "a", "s", "k">>, "Flask">>, <<<<"f", "a", "s", "t", "a", "p", "i">>, "FastAPI">>>>

detectTechStack ==
    LET has(file) == file \in markers
        node == has("package.json")
        deps == IF node /\ packageJson.valid THEN SpreadDeps(packageJson) ELSE <<>>
        python == has("requirements.txt") \/ has("pyproject.toml")
        pyHits == SelectSeq(PythonFrameworks, LAMBDA row :
                      has("pyproject.toml") /\ Includes(pyproject, row[1]))
        when(cond, xs) == IF cond THEN xs ELSE <<>>
    IN  [languages |->
             AddAll(<<>>, when(node, <<"JavaScript", "TypeScript">>)
                          \o when(python, <<"Python">>)
                          \o when(has("pom.xml"), <<"Java">>)
                          \o when(has("build.gradle"), <<"Java">>)
                          \o when(has("go.mod"), <<"Go">>)
                          \o when(has("Cargo.toml"), <<"Rust">>)),
         frameworks |->
             AddAll(<<>>, Detected(deps, FrameworkKeys)
                          \o [i \in 1..Len(pyHits) |-> pyHits[i][2]]),
         packageManagers |->
             AddAll(<<>>, when(node, <<"npm">>)
                          \o when(python, <<"pip">>)
                          \o when(has("pom.xml"), <<"Maven">>)
                          \o when(has("build.gradle"), <<"Gradle">>)
                          \o when(has("go.mod"), <<"go mod">>)
                          \o when(has("Cargo.toml"), <<"Cargo">>)),
         buildTools |->
             AddAll(<<>>, when(has("pom.xml"), <<"Maven">>)
                          \o when(has("build.gradle"), <<"Gradle">>)
                          \o when(has("webpack.config.js"), <<"Webpack">>)
                          \o when(has("vite.config.js") \/ has("vite.config.ts"), <<"Vite">>)
                          \o when(has("tsconfig.json"), <<"TypeScript Compiler">>)),
         testFrameworks |-> AddAll(<<>>, Detected(deps, TestFrameworkKeys))]

\* The most dependency entries of a package.json, over both sections
MaxDeps == 2

\* a version range; the empty string is the range that accepts any version
Versions == {"^1.0.0", ""}

DepKeys ==
    {FrameworkKeys[i][1] : i \in 1..Len(FrameworkKeys)}
    \cup {TestFrameworkKeys[i][1] : i \in 1..Len(TestFrameworkKeys)}
    \cup {"lodash"}

DepMaps == UNION {[K -> Versions] : K \in {X \in SUBSET DepKeys : Cardinality(X) <= MaxDeps}}

\* a package.json that JSON.parse rejects
InvalidJson == [valid |-> FALSE]

PackageJsons ==
    {InvalidJson}
    \cup {j \in [valid : {TRUE}, dependencies : DepMaps, devDependencies : DepMaps] :
             Cardinality(DOMAIN j.dependencies) + Cardinality(DOMAIN j.devDependencies) <= MaxDeps}

OtherMarkers ==
    {"requirements.txt", "pyproject.toml", "pom.xml", "build.gradle", "go.mod", "Cargo.toml",
     "webpack.config.js", "vite.config.js", "vite.config.ts", "tsconfig.json"}

MarkerSets ==
    {{}} \cup {{m} : m \in OtherMarkers}
    \cup {{"requirements.txt", "pyproject.toml"}, {"pom.xml", "build.gradle"},
          {"vite.config.js", "vite.config.ts"}}

PyprojectTexts == {<<>>, <<"d", "j", "a", "n", "g", "o">>, <<"f", "l", "a", "s", "k", " ", "f", "a", "s", "t", "a", "p", "i">>}

NoMarkers == markers = {} /\ packageJson = InvalidJson /\ pyproject = <<>>

TechIdle ==
    /\ techCall = [made |-> FALSE]
    /\ techResult = [status |-> "none"]

TechInit ==
    /\ \E other \in MarkerSets, node \in BOOLEAN :
          markers = other \cup (IF node THEN {"package.json"} ELSE {})
    /\ packageJson \in (IF "package.json" \in markers THEN PackageJsons ELSE {InvalidJson})
    /\ pyproject \in (IF "pyproject.toml" \in markers THEN PyprojectTexts ELSE {<<>>})
    /\ TechIdle

\* A call of DependencyAnalyzer.detectTechStack(projectPath)
DetectTechStack ==
    /\ techCall' = [made |-> TRUE]
    /\ techResult' = [status |-> "ok"] @@ detectTechStack
    /\ UNCHANGED <<markers, packageJson, pyproject, scanVars, parserVars, cxVars, depVars,
                   metricsVars, covVars, requests, serverVars>>

TechNext == DetectTechStack

\* the analyses of this section that have not been called
(***************************************************************************)
(* update_changelog tool (tools/project-analysis.ts)                       *)
(***************************************************************************)
\* p occurs in s at position i (1-based)
Occurs(s, p, i) ==
    /\ i >= 1
    /\ i + Len(p) - 1 <= Len(s)
    /\ \A k \in 1..Len(p) : s[i + k - 1] = p[k]

Occurrences(s, p) == {i \in 1..Len(s) : Occurs(s, p, i)}

FirstOf(S) == CHOOSE i \in S : \A j \in S : i <= j

ChangelogTitle == <<"#", " ", "C", "h", "a", "n", "g", "e", "l", "o", "g">>
VersionMark == <<"#", "#", " ", "[">>

\* the header written when the existing content holds no '# Changelog'
ChangelogPreamble ==
    <<"#", " ", "C", "h", "a", "n", "g", "e", "l", "o", "g", "\n", "\n">>
    \o <<"A", "l", "l", " ", "n", "o", "t", "a", "b", "l", "e", " ", "c", "h", "a", "n", "g", "e", "s", " ", "t", "o", " ", "t", "h", "i", "s", " ", "p", "r", "o", "j", "e", "c", "t", " ", "w", "i", "l", "l", " ", "b", "e", " ", "d", "o", "c", "u", "m", "e", "n", "t", "e", "d", " ", "i", "n", " ", "t", "h", "i", "s", " ", "f", "i", "l", "e", ".", "\n", "\n">>
    \o <<"T", "h", "e", " ", "f", "o", "r", "m", "a", "t", " ", "i", "s", " ", "b", "a", "s", "e", "d", " ", "o", "n", " ", "[", "K", "e", "e", "p", " ", "a", " ", "C", "h", "a", "n", "g", "e", "l", "o", "g", "]", "(", "h", "t", "t", "p", "s", ":", "/", "/", "k", "e", "e", "p", "a", "c", "h", "a", "n", "g", "e", "l", "o", "g", ".", "c", "o", "m", "/", "e", "n", "/", "1", ".", "0", ".", "0", "/", ")", ",", "\n">>
    \o <<"a", "n", "d", " ", "t", "h", "i", "s", " ", "p", "r", "o", "j", "e", "c", "t", " ", "a", "d", "h", "e", "r", "e", "s", " ", "t", "o", " ", "[", "S", "e", "m", "a", "n", "t", "i", "c", " ", "V", "e", "r", "s", "i", "o", "n", "i", "n", "g", "]", "(", "h", "t", "t", "p", "s", ":", "/", "/", "s", "e", "m", "v", "e", "r", ".", "o", "r", "g", "/", "s", "p", "e", "c", "/", "v", "2", ".", "0", ".", "0", ".", "h", "t", "m", "l", ")", ".", "\n", "\n">>

\* The header kept from the existing content: with a match of
\* /(# Changelog[\s\S]*?## \[)/ the content up to index + length - 3, which
\* ends one character into the '## [' that closes the match; without a match
\* existingContent.split('## [')[0]
ExistingHeader(existingContent) ==
    LET title == FirstOf(Occurrences(existingContent, ChangelogTitle))
        marks == {i \in Occurrences(existingContent, VersionMark) : i >= title + Len(ChangelogTitle)}
        all == Occurrences(existingContent, VersionMark)
    IN  IF marks # {}
        THEN SubSeq(existingContent, 1, FirstOf(marks))
        ELSE IF all = {} THEN existingContent
        ELSE SubSeq(existingContent, 1, FirstOf(all) - 1)

\* existingContent.split('## [').slice(1).join('## ['): what follows the
\* first '## ['
ExistingVersions(existingContent) ==
    LET all == Occurrences(existingContent, VersionMark)
    IN  SubSeq(existingContent, FirstOf(all) + Len(VersionMark), Len(existingContent))

\* the category of a change, by the start of its lower-case text
CategoryOf(change) ==
    LET lower == ToLowerCase(change) IN
    IF StartsWith(lower, <<"a", "d", "d">>) \/ StartsWith(lower, <<"n", "e", "w">>) \/ StartsWith(lower, <<"f", "e", "a", "t">>)
    THEN "Added"
    ELSE IF StartsWith(lower, <<"f", "i", "x">>) \/ StartsWith(lower, <<"b", "u", "g">>) THEN "Fixed"
    ELSE IF StartsWith(lower, <<"r", "e", "m", "o", "v", "e">>) \/ StartsWith(lower, <<"d", "e", "l", "e", "t", "e">>)
            \/ StartsWith(lower, <<"d", "e", "p", "r", "e", "c", "a", "t", "e">>)
    THEN "Removed"
    ELSE "Changed"

CategoryTitle(category) ==
    CASE category = "Added" -> <<"#", "#", "#", " ", "A", "d", "d", "e", "d", "\n">>
      [] category = "Changed" -> <<"#", "#", "#", " ", "C", "h", "a", "n", "g", "e", "d", "\n">>
      [] category = "Fixed" -> <<"#", "#", "#", " ", "F", "i", "x", "e", "d", "\n">>
      [] category = "Removed" -> <<"#", "#", "#", " ", "R", "e", "m", "o", "v", "e", "d", "\n">>

RECURSIVE Bullets(_)
\* `- ${change}\n` for each change
Bullets(changes) ==
    IF changes = <<>> THEN <<>>
    ELSE <<"-", " ">> \o Head(changes) \o <<"\n">> \o Bullets(Tail(changes))

\* the block of one category, empty when no change falls in it
CategoryBlock(changes, category) ==
    LET own == SelectSeq(changes, LAMBDA change : CategoryOf(change) = category)
    IN  IF own = <<>> THEN <<>> ELSE CategoryTitle(category) \o Bullets(own) \o <<"\n">>

CategorizedChanges(changes) ==
    CategoryBlock(changes, "Added") \o CategoryBlock(changes, "Changed")
    \o CategoryBlock(changes, "Fixed") \o CategoryBlock(changes, "Removed")

\* `## [${args.version}] - ${date}\n\n`
VersionHeading(version, date) ==
    VersionMark \o version \o <<"]", " ", "-", " ">> \o date \o <<"\n", "\n">>

\* The text the handler writes to CHANGELOG.md
updateChangelog(existingContent, args, date) ==
    (IF Occurrences(existingContent, ChangelogTitle) = {}
     THEN ChangelogPreamble
     ELSE ExistingHeader(existingContent))
    \o VersionHeading(args.version, date)
    \o CategorizedChanges(args.changes)
    \o (IF Occurrences(existingContent, VersionMark) # {}
        THEN ExistingVersions(existingContent)
        ELSE <<>>)

\* The most update_changelog calls on a project
MaxUpdates == 3

ChangelogVersions == {<<"1", ".", "0", ".", "0">>, <<"1", ".", "1", ".", "0">>}

ChangelogChanges == {<<<<"A", "d", "d", " ", "a">>>>, <<<<"f", "i", "x", " ", "b">>>>, <<<<"t", "u", "n", "e", " ", "c">>, <<"r", "e", "m", "o", "v", "e", " ", "d">>>>}

\* new Date().toISOString().split('T')[0]
Today == <<"2", "0", "2", "4", "-", "0", "5", "-", "0", "1">>

\* The update_changelog handler (the text it returns repeats the file)
UpdateChangelog(args) ==
    /\ Len(changelogCalls) < MaxUpdates
    /\ changelog' = updateChangelog(changelog, args, Today)
    /\ changelogCalls' = Append(changelogCalls, [version |-> args.version, changes |-> args.changes, date |-> Today])
    /\ UNCHANGED <<tools, responses, scanVars, parserVars, cxVars, depVars, metricsVars, covVars,
                   techVars, requests>>

ChangelogNext ==
    \E version \in ChangelogVersions, changes \in ChangelogChanges :
        UpdateChangelog([version |-> version, changes |-> changes])

(***************************************************************************)
(* ProjectManagerServer (tools/project-org.ts)                             *)
(***************************************************************************)
\* The arguments of a request, by what a handler makes of them
ToolArguments == {"valid", "invalid"}

\* Handlers, as what `await handler(args)` yields: a string, an object, or a
\* thrown Error
Handlers ==
    {[valid |-> [kind |-> "string", value |-> "Project structure"],
      invalid |-> [kind |-> "throw", message |-> "Project path does not exist"]],
     [valid |-> [kind |-> "object", value |-> [total |-> 0]],
      invalid |-> [kind |-> "object", value |-> [total |-> 0]]]}

ToolNames == {"analyze_project_structure", "update_changelog"}

\* a name no tool is registered under
UnknownTool == "missing_tool"

\* this.tools.set(name, {name, description, inputSchema, handler})
registerTool(registry, name, handler) == (name :> handler) @@ registry

\* typeof result === 'string' ? result : JSON.stringify(result, null, 2)
ResultText(outcome) ==
    IF outcome.kind = "string" THEN outcome.value ELSE [json |-> outcome.value, indent |-> 2]

\* the CallTool handler with the exception of the tool handler left uncaught
callToolUncaught(registry, name, args) ==
    IF name \notin DOMAIN registry
    THEN [kind |-> "rejected", message |-> <<"Tool ", name, " not found">>]
    ELSE LET outcome == registry[name][args] IN
         IF outcome.kind = "throw"
         THEN [kind |-> "rejected", message |-> <<outcome.message>>]
         ELSE [kind |-> "result", text |-> ResultText(outcome)]

\* The CallTool request handler: what the request resolves to, or is
\* rejected with
callTool(registry, name, args) ==
    IF name \notin DOMAIN registry
    THEN [kind |-> "rejected", message |-> <<"Tool ", name, " not found">>]
    ELSE LET outcome == registry[name][args] IN
         IF outcome.kind = "throw"
         THEN [kind |-> "result", text |-> <<"Error: ", outcome.message>>, isError |-> TRUE]
         ELSE [kind |-> "result", text |-> ResultText(outcome)]

\* The most CallTool requests a server gets
MaxRequests == 3

\* ProjectManagerServer.registerTool(name, description, inputSchema, handler)
RegisterTool(name, handler) ==
    /\ tools' = registerTool(tools, name, handler)
    /\ UNCHANGED <<responses, changelog, changelogCalls, scanVars, parserVars, cxVars, depVars,
                   metricsVars, covVars, techVars, requests>>

\* A CallTool request
CallTool(name, args) ==
    /\ Len(responses) < MaxRequests
    /\ responses' = Append(responses, [name |-> name, args |-> args,
                                       response |-> callTool(tools, name, args)])
    /\ UNCHANGED <<tools, changelog, changelogCalls, scanVars, parserVars, cxVars, depVars,
                   metricsVars, covVars, techVars, requests>>

ServerNext ==
    \/ \E name \in ToolNames, handler \in Handlers : RegisterTool(name, handler)
    \/ \E name \in ToolNames \cup {UnknownTool}, args \in ToolArguments : CallTool(name, args)

\* no CHANGELOG.md, a server without tools
ServerIdle ==
    /\ changelog = <<>>
    /\ changelogCalls = <<>>
    /\ tools = <<>>
    /\ responses = <<>>

OtherIdle ==
    /\ MetricsIdle /\ CovIdle /\ project = NoProject /\ TechIdle /\ NoMarkers /\ ServerIdle
    /\ requests = [r \in {1, 2} |-> [pc |-> "none"]]


(***************************************************************************)
(* Source extractor (utils/parser-utils.ts)                                *)
(***************************************************************************)
\* The languages getParser builds a parser for
ParserLanguages == {"JavaScript", "TypeScript", "Python", "Java", "Go", "Rust"}

\* parseFile returns a tree: the parser library is loaded and the file's
\* language has a parser (parsing the model's sources never throws).
ParsesToTree(name) == parserLoaded /\ detectLanguage(name) \in ParserLanguages

\* The parser cache after parseFile(name): getParser stores the new instance
ParsersAfter(name) ==
    IF ParsesToTree(name) THEN parsers \cup {detectLanguage(name)} ELSE parsers

\* getParser: parsers[language] exists, so the cached instance is returned
CacheHit(cache, name) == detectLanguage(name) \in cache

\* parser.parse(content) with a cached instance yielding an empty tree
TreeOfCacheHit(hit, content) == IF hit THEN <<>> ELSE content

\* parser.parse(content): the tree of the content it is given, whether the
\* parser instance is new or comes from the cache
TreeOf(hit, content) == content

\* The name of the function_declaration node a line holds: in `function f(...)`
\* the identifier between the keyword and the parenthesis; <<>> if none.
DeclaredName(line) ==
    LET text == TrimLeft(line)
        head == KwFunction \o <<" ">>
    IN  IF ~StartsWith(text, head) THEN <<>>
        ELSE LET rest == SubSeq(text, Len(head) + 1, Len(text))
                 parens == {i \in 1..Len(rest) : rest[i] = "("}
             IN  IF parens = {} THEN <<>>
                 ELSE SubSeq(rest, 1, (CHOOSE i \in parens : \A j \in parens : i <= j) - 1)

\* extractFunctions on a JavaScript/TypeScript tree: one {name, line} per
\* function declaration, in document order (line is 1-based).
extractFunctions(lines) ==
    LET rows == SelectSeq([i \in 1..Len(lines) |-> i], LAMBDA i : DeclaredName(lines[i]) # <<>>)
    IN  [k \in 1..Len(rows) |-> [name |-> DeclaredName(lines[rows[k]]), line |-> rows[k]]]

(***************************************************************************)
(* CodeAnalyzer.calculateComplexity (analyzers/file-analyzer.ts)           *)
(***************************************************************************)
DecisionKeywords ==
    <<<<"i", "f">>,
      <<"e", "l", "s", "e">>,
      <<"w", "h", "i", "l", "e">>,
      <<"f", "o", "r">>,
      <<"s", "w", "i", "t", "c", "h">>,
      <<"c", "a", "s", "e">>,
      <<"c", "a", "t", "c", "h">>,
      <<"&", "&">>,
      <<"|", "|">>,
      <<"?">>,
      <<"?", "?">>>>

\* The increments of one line if every occurrence of a keyword counted
KeywordOccurrences(line) ==
    SumOver(1..Len(DecisionKeywords),
            [k \in 1..Len(DecisionKeywords) |->
                Cardinality({i \in 1..Len(line) :
                    /\ i + Len(DecisionKeywords[k]) - 1 <= Len(line)
                    /\ SubSeq(line, i, i + Len(DecisionKeywords[k]) - 1) = DecisionKeywords[k]})])

\* The inner loop: complexity++ for each keyword the line includes
KeywordIncrements(line) ==
    Cardinality({k \in 1..Len(DecisionKeywords) : Includes(line, DecisionKeywords[k])})

RECURSIVE CountDecisionPoints(_, _, _)
\* The loop for (i = startLine; i < endLine; i++), lines indexed from 0
CountDecisionPoints(lines, startLine, endLine) ==
    IF startLine >= endLine THEN 0
    ELSE KeywordIncrements(lines[startLine + 1]) + CountDecisionPoints(lines, startLine + 1, endLine)

\* The thresholds with the comparisons taken strictly
LevelOfStrict(complexity) ==
    IF complexity < 5 THEN "low"
    ELSE IF complexity < 10 THEN "medium"
    ELSE IF complexity < 20 THEN "high"
    ELSE "very-high"

LevelOf(complexity) ==
    IF complexity <= 5 THEN "low"
    ELSE IF complexity <= 10 THEN "medium"
    ELSE IF complexity <= 20 THEN "high"
    ELSE "very-high"

RecommendationsOf(complexity) ==
    (IF complexity > 10
     THEN <<"Consider breaking this function into smaller functions",
            "Extract complex conditions into named functions">>
     ELSE <<>>)
    \o (IF complexity > 20
        THEN <<"This function is too complex and should be refactored">>
        ELSE <<>>)

\* The CodeComplexity both modes return for the lines [startLine, endLine)
ComplexityOf(name, args, lines, startLine, endLine) ==
    LET complexity == 1 + CountDecisionPoints(lines, startLine, endLine)
    IN  [status |-> "ok",
         file |-> name,
         complexity |-> complexity,
         level |-> LevelOf(complexity),
         recommendations |-> RecommendationsOf(complexity),
         scanned |-> <<startLine, endLine>>]
        @@ (IF "function" \in DOMAIN args THEN [function |-> args.function] ELSE <<>>)

\* a function name was passed (an empty string is falsy)
HasFunctionName(args) == "function" \in DOMAIN args /\ args.function # <<>>

\* Fallback: the first line naming the function, by any of the three patterns
FallbackMatches(line, functionName) ==
    \/ Includes(line, KwFunction \o <<" ">> \o functionName)
    \/ Includes(line, functionName \o <<"(">>)
    \/ Includes(line, <<"c", "o", "n", "s", "t", " ">> \o functionName \o <<" ", "=">>)

\* the first line that is exactly '}' and lies three lines below or more
FallbackEndAtLeastThree(lines, i) ==
    LET ends == {j \in (i + 1)..(Len(lines) - 1) : Trim(lines[j + 1]) = <<"}">> /\ j >= i + 3}
    IN  IF ends = {} THEN Len(lines) ELSE CHOOSE j \in ends : \A k \in ends : j <= k

\* Fallback: the end of the function found at line i (0-based): the first
\* line that is exactly '}' and lies more than three lines below
FallbackEnd(lines, i) ==
    LET ends == {j \in (i + 1)..(Len(lines) - 1) : Trim(lines[j + 1]) = <<"}">> /\ j > i + 3}
    IN  IF ends = {} THEN Len(lines) ELSE CHOOSE j \in ends : \A k \in ends : j <= k

calculateComplexityFallback(name, lines, args) ==
    LET found == IF HasFunctionName(args)
                 THEN {i \in 0..(Len(lines) - 1) : FallbackMatches(lines[i + 1], args.function)}
                 ELSE {}
    IN  IF found = {} THEN ComplexityOf(name, args, lines, 0, Len(lines))
        ELSE LET i == CHOOSE x \in found : \A y \in found : x <= y
             IN  ComplexityOf(name, args, lines, i, FallbackEnd(lines, i))

\* Structured mode: the line that ends the body of the function starting at
\* startLine (0-based): the next line that starts a function, const or class
StructuredEnd(lines, startLine) ==
    LET ends == {i \in (startLine + 1)..(Len(lines) - 1) :
                    \/ StartsWith(Trim(lines[i + 1]), KwFunction)
                    \/ StartsWith(Trim(lines[i + 1]), <<"c", "o", "n", "s", "t">>)
                    \/ StartsWith(Trim(lines[i + 1]), <<"c", "l", "a", "s", "s">>)}
    IN  IF ends = {} THEN Len(lines) ELSE CHOOSE i \in ends : \A k \in ends : i <= k

calculateComplexity(name, lines, args, cache) ==
    IF ~ParsesToTree(name) THEN calculateComplexityFallback(name, lines, args)
    ELSE LET functions == extractFunctions(TreeOf(CacheHit(cache, name), lines))
             hits == {k \in 1..Len(functions) : HasFunctionName(args) /\ functions[k].name = args.function}
         IN  IF HasFunctionName(args) /\ hits = {}
             THEN [status |-> "error", message |-> "Function not found"]
             ELSE IF ~HasFunctionName(args) THEN ComplexityOf(name, args, lines, 0, Len(lines))
             ELSE LET target == functions[CHOOSE k \in hits : \A m \in hits : k <= m]
                      startLine == target.line - 1
                  IN  ComplexityOf(name, args, lines, startLine, StructuredEnd(lines, startLine))

(***************************************************************************)
(* Metrics: bounds, initial states and actions                             *)
(***************************************************************************)
\* The most lines a source file has (content.split('\n') yields at least one)
MaxLines == 3

LineEmpty == <<>>
LineIf == <<" ", " ", "i", "f", " ", "(", "a", ")", " ", "{">>
LineIfAnd == <<"i", "f", " ", "(", "a", " ", "&", "&", " ", "b", ")", " ", "{">>
LineTwoIfs == <<"i", "f", " ", "(", "a", " ", "&", "&", " ", "b", ")", " ", "i", "f", " ", "(", "c", ")", " ", "{">>
LineCoalesce == <<"a", " ", "?", "?", " ", "b">>
LineDense == <<"e", "l", "s", "e", " ", "i", "f", " ", "w", "h", "i", "l", "e", " ", "f", "o", "r", " ", "s", "w", "i", "t", "c", "h", " ", "c", "a", "s", "e", " ", "c", "a", "t", "c", "h", " ", "&", "&", " ", "|", "|">>
LineConstG == <<"c", "o", "n", "s", "t", " ", "g", " ", "=", " ", "1">>

LinePool ==
    {LineEmpty, LineIf, LineIfAnd, LineTwoIfs, LineCoalesce, LineDense, LineFunctionF,
     LineConstG}

SourceNames == {<<"t", ".", "j", "s">>, <<"t", ".", "t", "x", "t">>}

FunctionNames == {<<"f">>, <<"g">>}

Sources ==
    [name : SourceNames, lines : UNION {[1..n -> LinePool] : n \in 1..MaxLines}]

ComplexityArgs == {<<>>} \cup [function : FunctionNames]

ParserInit == parserLoaded \in BOOLEAN /\ parsers = {}

CxIdle ==
    /\ cxCall = [made |-> FALSE]
    /\ cxResult = [status |-> "none"]

CxInit ==
    /\ source \in Sources
    /\ CxIdle

\* A call of CodeAnalyzer.calculateComplexity(filePath, functionName?) on the file
CalculateComplexity(args) ==
    /\ cxCall' = [made |-> TRUE, args |-> args]
    /\ cxResult' = calculateComplexity(source.name, source.lines, args, parsers)
    /\ parsers' = ParsersAfter(source.name)
    /\ UNCHANGED <<source, parserLoaded, scanVars, depVars, otherVars>>

CxNext == \E args \in ComplexityArgs : CalculateComplexity(args)

\* Function bodies: the most lines of a source file that holds one
MaxBodyLines == 6

\* source files made of declarations of f, closing braces and statements
BodySources ==
    [name : {<<"t", ".", "j", "s">>},
     lines : UNION {[1..n -> {LineFunctionF, LineBrace, LineIf}] : n \in 1..MaxBodyLines}]

BodyInit ==
    /\ source \in BodySources
    /\ CxIdle

(***************************************************************************)
(* DependencyAnalyzer (analyzers/dependency-analyzer.ts)                   *)
(***************************************************************************)
FileA == <<"a", ".", "j", "s">>
FileB == <<"b", ".", "j", "s">>
FileC == <<"c", ".", "j", "s">>

\* findFiles(absolutePath, codeExtensions): the project's code files, in glob order
ProjectFiles == <<FileA, FileB, FileC>>

\* an import string that is the path of no file
ExternalImport == <<".", "/", "x">>

\* a file argument that names no file on disk
MissingFile == <<"n", "o", ".", "j", "s">>

ImportStrings == {FileA, FileB, FileC, ExternalImport}

\* The most import occurrences in the whole project
MaxEdges == 4

\* fs.pathExists(absoluteFilePath)
fileExists(file) == \E i \in 1..Len(ProjectFiles) : ProjectFiles[i] = file

\* a file argument was passed (an empty string is falsy)
HasFile(args) == "file" \in DOMAIN args /\ args.file # <<>>

\* filesToAnalyze
FilesToAnalyze(args) ==
    IF HasFile(args)
    THEN (IF fileExists(args.file) THEN <<args.file>> ELSE <<>>)
    ELSE ProjectFiles

\* path.relative(absolutePath, file) for a file directly under the root
RelativePath(file) == file

NodeOf(file, imports) ==
    [name |-> file, path |-> RelativePath(file), imports |-> imports,
     exports |-> <<>>, dependencies |-> imports]

RECURSIVE AnalyzeFiles(_, _, _)
\* The loop over filesToAnalyze: a file without a tree is skipped, the others
\* get a node from the imports their tree holds; each parse leaves its
\* language's parser in the cache
AnalyzeFiles(files, imports, cache) ==
    IF files = <<>> THEN <<>>
    ELSE LET file == Head(files) IN
         IF ~ParsesToTree(file) THEN AnalyzeFiles(Tail(files), imports, cache)
         ELSE <<NodeOf(file, TreeOf(CacheHit(cache, file), imports[file]))>>
              \o AnalyzeFiles(Tail(files), imports, cache \cup {detectLanguage(file)})

RECURSIVE EdgesOfDistinct(_)
\* one edge per distinct import of each node
EdgesOfDistinct(nodes) ==
    IF nodes = <<>> THEN <<>>
    ELSE LET node == Head(nodes)
             distinct == Unique(node.imports)
         IN  [i \in 1..Len(distinct) |-> [from |-> node.path, to |-> distinct[i], type |-> "import"]]
             \o EdgesOfDistinct(Tail(nodes))

RECURSIVE EdgesOf(_)
\* imports.forEach(imp => edges.push(...)) for each node in turn
EdgesOf(nodes) ==
    IF nodes = <<>> THEN <<>>
    ELSE LET node == Head(nodes) IN
         [i \in 1..Len(node.imports) |-> [from |-> node.path, to |-> node.imports[i], type |-> "import"]]
         \o EdgesOf(Tail(nodes))

\* the target of the node's first edge only
NeighborsFirstOnly(node) ==
    LET own == SelectSeq(depEdges, LAMBDA edge : edge.from = node)
    IN  IF own = <<>> THEN <<>> ELSE <<own[1].to>>

\* graph.get(node) || []: the targets of the node's edges, in edge order
Neighbors(node) ==
    LET own == SelectSeq(depEdges, LAMBDA edge : edge.from = node)
    IN  [i \in 1..Len(own) |-> own[i].to]

\* the start of the path taken for the position of the node
IndexOfStart(seq, x) == IF seq = <<>> THEN 0 ELSE 1

\* path.indexOf(node), 1-based; 0 when absent
IndexOf(seq, x) ==
    IF \E i \in 1..Len(seq) : seq[i] = x
    THEN CHOOSE i \in 1..Len(seq) : seq[i] = x /\ \A j \in 1..(i - 1) : seq[j] # x
    ELSE 0

\* the recorded cycle without the closing node
OpenCycleFrom(seq, node) == SubSeq(seq, IndexOf(seq, node), Len(seq))

\* path.slice(cycleStart).concat(node)
CycleFrom(seq, node) == SubSeq(seq, IndexOf(seq, node), Len(seq)) \o <<node>>

\* dfs(node) without the test of the visited set
DfsEnterRevisit(node, callers) ==
    IF node \in recStack
    THEN /\ circular' = (IF IndexOf(dfsPath, node) # 0
                         THEN Append(circular, CycleFrom(dfsPath, node))
                         ELSE circular)
         /\ frames' = callers
         /\ UNCHANGED <<visited, recStack, dfsPath>>
    ELSE /\ visited' = visited \cup {node}
         /\ recStack' = recStack \cup {node}
         /\ dfsPath' = Append(dfsPath, node)
         /\ frames' = Append(callers, [node |-> node, next |-> 1])
         /\ UNCHANGED circular

\* The entry of dfs(node), the caller's frames being `callers`: a node under
\* active recursion records a cycle, a visited node returns, a new node is
\* marked and gets a frame.
DfsEnter(node, callers) ==
    IF node \in recStack
    THEN /\ circular' = (IF IndexOf(dfsPath, node) # 0
                         THEN Append(circular, CycleFrom(dfsPath, node))
                         ELSE circular)
         /\ frames' = callers
         /\ UNCHANGED <<visited, recStack, dfsPath>>
    ELSE IF node \in visited
    THEN /\ frames' = callers
         /\ UNCHANGED <<visited, recStack, dfsPath, circular>>
    ELSE /\ visited' = visited \cup {node}
         /\ recStack' = recStack \cup {node}
         /\ dfsPath' = Append(dfsPath, node)
         /\ frames' = Append(callers, [node |-> node, next |-> 1])
         /\ UNCHANGED circular

DepIdle ==
    /\ depCall = [made |-> FALSE]
    /\ depPc = "idle"
    /\ depNodes = <<>>
    /\ depEdges = <<>>
    /\ visited = {}
    /\ recStack = {}
    /\ dfsPath = <<>>
    /\ circular = <<>>
    /\ frames = <<>>
    /\ outer = 1
    /\ depResult = [status |-> "none"]

\* The import occurrences of a project, as (file index, import string) in
\* file order and, within a file, document order
EdgeLists ==
    {E \in UNION {[1..n -> (1..Len(ProjectFiles)) \X ImportStrings] : n \in 0..MaxEdges} :
        \A i \in 1..(Len(E) - 1) : E[i][1] <= E[i + 1][1]}

ImportsFrom(E) ==
    [f \in {ProjectFiles[i] : i \in 1..Len(ProjectFiles)} |->
        LET own == SelectSeq(E, LAMBDA e : ProjectFiles[e[1]] = f)
        IN  [i \in 1..Len(own) |-> own[i][2]]]

DepInit ==
    /\ importsOf \in {ImportsFrom(E) : E \in EdgeLists}
    /\ DepIdle

DependencyArgs == {<<>>} \cup [file : {FileA, MissingFile}]

\* analyzeDependencies(projectPath, filePath?) up to the call of
\* detectCircularDependencies; on a missing project path it throws.
AnalyzeDependencies(projectPath, args) ==
    /\ depPc \in {"idle", "done"}
    /\ depCall' = [made |-> TRUE, path |-> projectPath, args |-> args]
    /\ visited' = {}
    /\ recStack' = {}
    /\ dfsPath' = <<>>
    /\ circular' = <<>>
    /\ frames' = <<>>
    /\ outer' = 1
    /\ IF ~pathExists(projectPath)
       THEN /\ depNodes' = <<>>
            /\ depEdges' = <<>>
            /\ depPc' = "done"
            /\ depResult' = [status |-> "error", message |-> "Project path does not exist"]
            /\ UNCHANGED parsers
       ELSE LET files == FilesToAnalyze(args)
                nodes == AnalyzeFiles(files, importsOf, parsers)
            IN  /\ depNodes' = nodes
                /\ depEdges' = EdgesOf(nodes)
                /\ depPc' = "dfs"
                /\ depResult' = [status |-> "running"]
                /\ parsers' = parsers \cup {detectLanguage(files[i]) : i \in {j \in 1..Len(files) : ParsesToTree(files[j])}}
    /\ UNCHANGED <<importsOf, parserLoaded, scanVars, cxVars, otherVars>>

\* nodes.forEach: the next node, entered unless already visited
DfsNextRoot ==
    /\ depPc = "dfs"
    /\ frames = <<>>
    /\ outer <= Len(depNodes)
    /\ outer' = outer + 1
    /\ IF depNodes[outer].path \notin visited
       THEN DfsEnter(depNodes[outer].path, <<>>)
       ELSE UNCHANGED <<visited, recStack, dfsPath, circular, frames>>
    /\ UNCHANGED <<importsOf, depCall, depPc, depNodes, depEdges, depResult, parserVars,
                   scanVars, cxVars, otherVars>>

\* for (const neighbor of neighbors) dfs(neighbor): the innermost call
\* takes its next neighbour
DfsVisitNeighbor ==
    /\ depPc = "dfs"
    /\ frames # <<>>
    /\ LET top == frames[Len(frames)] IN
        /\ top.next <= Len(Neighbors(top.node))
        /\ DfsEnter(Neighbors(top.node)[top.next],
                    [frames EXCEPT ![Len(frames)].next = @ + 1])
    /\ UNCHANGED <<importsOf, depCall, depPc, depNodes, depEdges, outer, depResult, parserVars,
                   scanVars, cxVars, otherVars>>

\* path.pop(); recStack.delete(node); return false
DfsReturn ==
    /\ depPc = "dfs"
    /\ frames # <<>>
    /\ LET top == frames[Len(frames)] IN
        /\ top.next > Len(Neighbors(top.node))
        /\ recStack' = recStack \ {top.node}
    /\ dfsPath' = SubSeq(dfsPath, 1, Len(dfsPath) - 1)
    /\ frames' = SubSeq(frames, 1, Len(frames) - 1)
    /\ UNCHANGED <<importsOf, depCall, depPc, depNodes, depEdges, visited, circular, outer,
                   depResult, parserVars,
                   scanVars, cxVars, otherVars>>

\* return { nodes, edges, circular }
DfsFinish ==
    /\ depPc = "dfs"
    /\ frames = <<>>
    /\ outer > Len(depNodes)
    /\ depPc' = "done"
    /\ depResult' = [status |-> "ok", nodes |-> depNodes, edges |-> depEdges, circular |-> circular]
    /\ UNCHANGED <<importsOf, depCall, depNodes, depEdges, dfsVars, parserVars, scanVars, cxVars, otherVars>>

DepNext ==
    \/ \E p \in ProjectPaths, args \in DependencyArgs : AnalyzeDependencies(p, args)
    \/ DfsNextRoot
    \/ DfsVisitNeighbor
    \/ DfsReturn
    \/ DfsFinish


(***************************************************************************)
(* Concurrent requests: analyzeDependencies and calculateComplexity as the *)
(* event loop runs them, one step from an await point to the next          *)
(***************************************************************************)
\* graph.get(node) || [] over a given edge list
NeighborsIn(edges, node) ==
    LET own == SelectSeq(edges, LAMBDA edge : edge.from = node)
    IN  [i \in 1..Len(own) |-> own[i].to]

RECURSIVE dfs(_, _, _)
RECURSIVE dfsEach(_, _, _)
\* dfs(node) as one call, on the record of visited, recStack, path, circular
dfs(st, edges, node) ==
    IF node \in st.recStack
    THEN IF IndexOf(st.path, node) # 0
         THEN [st EXCEPT !.circular = Append(@, CycleFrom(st.path, node))]
         ELSE st
    ELSE IF node \in st.visited THEN st
    ELSE LET entered == [st EXCEPT !.visited = @ \cup {node},
                                   !.recStack = @ \cup {node},
                                   !.path = Append(@, node)]
             after == dfsEach(entered, edges, NeighborsIn(edges, node))
         IN  [after EXCEPT !.path = SubSeq(@, 1, Len(@) - 1), !.recStack = @ \ {node}]

dfsEach(st, edges, nodes) ==
    IF nodes = <<>> THEN st ELSE dfsEach(dfs(st, edges, Head(nodes)), edges, Tail(nodes))

RECURSIVE dfsRoots(_, _, _)
\* nodes.forEach(node => { if (!visited.has(node.path)) dfs(node.path) })
dfsRoots(st, edges, nodes) ==
    IF nodes = <<>> THEN st
    ELSE dfsRoots(IF Head(nodes).path \in st.visited THEN st ELSE dfs(st, edges, Head(nodes).path),
                  edges, Tail(nodes))

detectCircularDependencies(nodes, edges) ==
    dfsRoots([visited |-> {}, recStack |-> {}, path |-> <<>>, circular |-> <<>>],
             edges, nodes).circular

\* analyzeDependencies as one uninterrupted call, the cache being `cache`
analyzeDependencies(input, cache) ==
    IF ~pathExists(input.path)
    THEN [status |-> "error", message |-> "Project path does not exist"]
    ELSE LET nodes == AnalyzeFiles(FilesToAnalyze(input.args), input.imports, cache)
         IN  [status |-> "ok", nodes |-> nodes, edges |-> EdgesOf(nodes),
              circular |-> detectCircularDependencies(nodes, EdgesOf(nodes))]

\* What a request returns when it runs alone in a fresh process
RunAlone(kind, input) ==
    IF kind = "dependencies" THEN analyzeDependencies(input, {})
    ELSE calculateComplexity(input.name, input.lines, input.args, {})

RequestIds == {1, 2}

\* The projects and files the requests are made against
RequestImports ==
    {ImportsFrom(E) : E \in {<<>>,
                             <<<<1, FileB>>, <<2, FileA>>>>,
                             <<<<1, FileB>>, <<1, ExternalImport>>, <<3, FileC>>>>}}

RequestInputs ==
    [kind : {"dependencies"}, path : ProjectPaths, args : DependencyArgs, imports : RequestImports]
    \cup [kind : {"complexity"}, name : SourceNames, args : ComplexityArgs,
          lines : {<<LineFunctionF, LineIf>>, <<LineConstG>>}]

NewRequest(input) == [pc |-> "new", input |-> input, after |-> {}, result |-> [status |-> "none"]]

NoRequests == [r \in RequestIds |-> [pc |-> "none"]]

RequestsInit ==
    /\ requests \in {[r \in RequestIds |-> NewRequest(inputs[r])] : inputs \in [RequestIds -> RequestInputs]}
    /\ ParserInit

Done == {r \in RequestIds : requests[r].pc = "done"}

\* analyzeDependencies up to the loop: the existence check and the file set
DepRequestStart(r) ==
    /\ requests[r].pc = "new"
    /\ requests[r].input.kind = "dependencies"
    /\ requests' = [requests EXCEPT ![r] =
          IF ~pathExists(@.input.path)
          THEN [@ EXCEPT !.pc = "done", !.after = Done,
                         !.result = [status |-> "error", message |-> "Project path does not exist"]]
          ELSE [pc |-> "loop", input |-> @.input, after |-> Done, result |-> @.result,
                files |-> FilesToAnalyze(@.input.args), i |-> 1, nodes |-> <<>>, edges |-> <<>>]]
    /\ UNCHANGED <<parsers, parserLoaded, scanVars, cxVars, depVars, metricsVars, covVars,
                   techVars, serverVars>>

\* parseFile once the content is read: getParser and parser.parse
DepRequestParse(r) ==
    /\ requests[r].pc = "loop"
    /\ requests[r].i <= Len(requests[r].files)
    /\ LET req == requests[r]
           file == req.files[req.i]
       IN  /\ requests' = [requests EXCEPT ![r] =
                  [pc |-> "parsed", input |-> @.input, after |-> @.after, result |-> @.result,
                   files |-> @.files, i |-> @.i, nodes |-> @.nodes, edges |-> @.edges,
                   tree |-> IF ParsesToTree(file)
                            THEN <<TreeOf(CacheHit(parsers, file), req.input.imports[file])>>
                            ELSE <<>>]]
           /\ parsers' = ParsersAfter(file)
    /\ UNCHANGED <<parserLoaded, scanVars, cxVars, depVars, metricsVars, covVars, techVars, serverVars>>

\* the rest of the loop body: `if (!tree) continue`, else the node and edges
DepRequestPush(r) ==
    /\ requests[r].pc = "parsed"
    /\ requests[r].input.kind = "dependencies"
    /\ LET req == requests[r]
           node == NodeOf(req.files[req.i], req.tree[1])
       IN  requests' = [requests EXCEPT ![r] =
              [pc |-> "loop", input |-> @.input, after |-> @.after, result |-> @.result,
               files |-> @.files, i |-> @.i + 1,
               nodes |-> IF req.tree = <<>> THEN @.nodes ELSE Append(@.nodes, node),
               edges |-> IF req.tree = <<>> THEN @.edges ELSE @.edges \o EdgesOf(<<node>>)]]
    /\ UNCHANGED <<parsers, parserLoaded, scanVars, cxVars, depVars, metricsVars, covVars,
                   techVars, serverVars>>

\* after the loop: detectCircularDependencies and the return
DepRequestFinish(r) ==
    /\ requests[r].pc = "loop"
    /\ requests[r].i > Len(requests[r].files)
    /\ requests' = [requests EXCEPT ![r] =
          [pc |-> "done", input |-> @.input, after |-> @.after,
           result |-> [status |-> "ok", nodes |-> @.nodes, edges |-> @.edges,
                       circular |-> detectCircularDependencies(@.nodes, @.edges)]]]
    /\ UNCHANGED <<parsers, parserLoaded, scanVars, cxVars, depVars, metricsVars, covVars,
                   techVars, serverVars>>

\* calculateComplexity up to the end of parseFile
CxRequestParse(r) ==
    /\ requests[r].pc = "new"
    /\ requests[r].input.kind = "complexity"
    /\ requests' = [requests EXCEPT ![r] =
          [pc |-> "parsed", input |-> @.input, after |-> Done, result |-> @.result,
           cache |-> parsers]]
    /\ parsers' = ParsersAfter(requests[r].input.name)
    /\ UNCHANGED <<parserLoaded, scanVars, cxVars, depVars, metricsVars, covVars, techVars, serverVars>>

\* the rest of calculateComplexity, on the tree that parse returned
CxRequestFinish(r) ==
    /\ requests[r].pc = "parsed"
    /\ requests[r].input.kind = "complexity"
    /\ requests' = [requests EXCEPT ![r] =
          [pc |-> "done", input |-> @.input, after |-> @.after,
           result |-> calculateComplexity(@.input.name, @.input.lines, @.input.args, @.cache)]]
    /\ UNCHANGED <<parsers, parserLoaded, scanVars, cxVars, depVars, metricsVars, covVars,
                   techVars, serverVars>>

ConcurrentNext ==
    \E r \in RequestIds :
        \/ DepRequestStart(r)
        \/ DepRequestParse(r)
        \/ DepRequestPush(r)
        \/ DepRequestFinish(r)
        \/ CxRequestParse(r)
        \/ CxRequestFinish(r)

\* an empty file and a project without imports
EmptySource == [name |-> <<>>, lines |-> <<<<>>>>]
NoImports == ImportsFrom(<<>>)

vars == <<scanVars, parserVars, cxVars, depVars, otherVars>>

\* The scanner alone, over every directory of the template
InitScan ==
    /\ ScanInit
    /\ parserLoaded = FALSE /\ parsers = {}
    /\ CxIdle /\ source = EmptySource
    /\ DepIdle /\ importsOf = NoImports
    /\ OtherIdle

SpecScan == InitScan /\ [][ScanNext]_vars

\* The complexity metric alone, over every source file of the pool
InitCx ==
    /\ CxInit
    /\ ParserInit
    /\ ScanIdle /\ present = {} /\ unreadable = {}
    /\ DepIdle /\ importsOf = NoImports
    /\ OtherIdle

SpecCx == InitCx /\ [][CxNext]_vars

\* The complexity metric over source files long enough to hold a function body
InitBody ==
    /\ BodyInit
    /\ ParserInit
    /\ ScanIdle /\ present = {} /\ unreadable = {}
    /\ DepIdle /\ importsOf = NoImports
    /\ OtherIdle

SpecBody == InitBody /\ [][CxNext]_vars

\* The dependency graph alone, over every project of at most MaxEdges imports
InitDep ==
    /\ DepInit
    /\ ParserInit
    /\ ScanIdle /\ present = {} /\ unreadable = {}
    /\ CxIdle /\ source = EmptySource
    /\ OtherIdle

SpecDep == InitDep /\ [][DepNext]_vars

\* The walk is synchronous code: once detectCircularDependencies is called,
\* each of its steps is taken
SpecDepFair ==
    /\ InitDep
    /\ [][DepNext]_vars
    /\ WF_vars(DfsNextRoot)
    /\ WF_vars(DfsVisitNeighbor)
    /\ WF_vars(DfsReturn)
    /\ WF_vars(DfsFinish)

\* The project metrics alone, over every directory of the template
SpecMetrics == InitScan /\ [][MetricsNext]_vars

\* Test coverage and large files alone, over every project of the name pool
InitCov ==
    /\ project \in Projects
    /\ CovIdle /\ MetricsIdle /\ TechIdle /\ NoMarkers /\ requests = NoRequests /\ ServerIdle
    /\ ScanIdle /\ present = {} /\ unreadable = {}
    /\ parserLoaded = FALSE /\ parsers = {}
    /\ CxIdle /\ source = EmptySource
    /\ DepIdle /\ importsOf = NoImports

SpecCov == InitCov /\ [][CovNext]_vars

\* The smell detectors alone, over the files of the smell pool
InitSmell ==
    /\ project \in SmellProjects
    /\ CovIdle /\ MetricsIdle /\ TechIdle /\ NoMarkers /\ requests = NoRequests /\ ServerIdle
    /\ ScanIdle /\ present = {} /\ unreadable = {}
    /\ parserLoaded = FALSE /\ parsers = {}
    /\ CxIdle /\ source = EmptySource
    /\ DepIdle /\ importsOf = NoImports

SpecSmell == InitSmell /\ [][SmellNext]_vars

\* The tech stack alone, over every combination of marker files
InitTech ==
    /\ TechInit
    /\ CovIdle /\ project = NoProject /\ MetricsIdle /\ requests = NoRequests /\ ServerIdle
    /\ ScanIdle /\ present = {} /\ unreadable = {}
    /\ parserLoaded = FALSE /\ parsers = {}
    /\ CxIdle /\ source = EmptySource
    /\ DepIdle /\ importsOf = NoImports

SpecTech == InitTech /\ [][TechNext]_vars

\* The update_changelog tool alone, on a project without CHANGELOG.md
InitChangelog ==
    /\ OtherIdle
    /\ ScanIdle /\ present = {} /\ unreadable = {}
    /\ parserLoaded = FALSE /\ parsers = {}
    /\ CxIdle /\ source = EmptySource
    /\ DepIdle /\ importsOf = NoImports

SpecChangelog == InitChangelog /\ [][ChangelogNext]_vars

\* The server alone, from its construction on
SpecServer == InitChangelog /\ [][ServerNext]_vars

\* Two requests in one process, interleaved at their await points
InitConcurrent ==
    /\ RequestsInit
    /\ TechIdle /\ NoMarkers /\ CovIdle /\ project = NoProject /\ MetricsIdle /\ ServerIdle
    /\ ScanIdle /\ present = {} /\ unreadable = {}
    /\ CxIdle /\ source = EmptySource
    /\ DepIdle /\ importsOf = NoImports

SpecConcurrent == InitConcurrent /\ [][ConcurrentNext]_vars

\* The analyzers together
Init == InitScan \/ InitCx \/ InitDep

Next ==
    ScanNext \/ CxNext \/ DepNext \/ MetricsNext \/ CovNext \/ SmellNext \/ TechNext \/ ConcurrentNext
    \/ ChangelogNext \/ ServerNext

Spec == Init /\ [][Next]_vars

(***************************************************************************)
(* Properties of the scanner                                               *)
(***************************************************************************)
\* What the template says of an entry, independently of the walks
RECURSIVE Depth(_)
Depth(e) == IF Template[e].parent = Root THEN 0 ELSE 1 + Depth(Template[e].parent)

IgnoredName(name) ==
    \/ name[1] = "."
    \/ name \in {<<"n", "o", "d", "e", "_", "m", "o", "d", "u", "l", "e", "s">>,
                 <<"d", "i", "s", "t">>, <<"b", "u", "i", "l", "d">>}

RECURSIVE Pruned(_)
\* the entry, or a directory above it, is hidden or in the ignore set
Pruned(e) ==
    \/ IgnoredName(EntryName(e))
    \/ Template[e].parent # Root /\ Pruned(Template[e].parent)

\* The nodes of a returned tree at any nesting level, as <<path, level, type>>
RECURSIVE TreeEntries(_, _)
TreeEntries(nodes, level) ==
    UNION {{<<nodes[i].path, level, nodes[i].type>>}
           \cup (IF nodes[i].type = "directory" THEN TreeEntries(nodes[i].children, level + 1) ELSE {})
           : i \in 1..Len(nodes)}

RECURSIVE TreeFileNodes(_)
\* The file nodes of a returned tree at any nesting level
TreeFileNodes(nodes) ==
    UNION {IF nodes[i].type = "file" THEN {nodes[i]} ELSE TreeFileNodes(nodes[i].children)
           : i \in 1..Len(nodes)}

Returned == scanCall.made /\ scanResult.status = "ok"

\* The bytes of file e are part of the byte total (sizes are distinct powers of two)
CountsBytesOf(total, e) == (total \div Template[e].size) % 2 = 1

\* C1: totalFiles equals the number of nodes of type 'file' at any nesting
\* level of the returned files tree.
C1_TotalFilesCountsFileNodes ==
    Returned =>
        scanResult.totalFiles =
            Cardinality({t \in TreeEntries(scanResult.files, 0) : t[3] = "file"})

C1_Witness ==
    /\ Returned
    /\ scanResult.totalFiles >= 4
    /\ \E t \in TreeEntries(scanResult.files, 0) : t[3] = "file" /\ t[2] = 2

\* C7: a call on a root path that does not exist throws the NotFound error,
\* lists no directory and returns no ProjectStructure.
C7_MissingRootFails ==
    (scanCall.made /\ ~pathExists(scanCall.path)) =>
        /\ scanResult.status = "error"
        /\ scanResult.message = "Project path does not exist"
        /\ scanResult.listed = <<>>
        /\ "files" \notin DOMAIN scanResult

C7_Witness ==
    /\ scanCall.made
    /\ scanCall.path = MissingPath
    /\ scanResult.status = "error"
    /\ present # {}

\* C8 (as claimed): no hidden or ignored entry, nor anything below one, is in
\* the files tree, and none of their bytes is in totalSize.
C8_PrunedFromTreeAndSize ==
    Returned =>
        /\ \A t \in TreeEntries(scanResult.files, 0) : ~Pruned(t[1])
        /\ \A e \in present :
              (~IsDirectory(e) /\ Pruned(e)) => ~CountsBytesOf(scanResult.totalSize, e)

\* C9 (as claimed): the tree holds exactly the non-pruned entries at depths
\* 0..maxDepth, the root's direct children being depth 0.
C9_DepthsUpToMaxDepth ==
    Returned =>
        {<<t[1], t[2]>> : t \in TreeEntries(scanResult.files, 0)} =
            {<<e, Depth(e)>> : e \in {x \in present : ~Pruned(x) /\ Depth(x) <= scanCall.maxDepth}}

\* C9 (amended): the tree holds exactly the non-pruned entries at depths
\* 0..maxDepth-1, each at its own depth; maxDepth = 0 returns an empty tree.
C9_DepthsBelowMaxDepth ==
    Returned =>
        /\ {<<t[1], t[2]>> : t \in TreeEntries(scanResult.files, 0)} =
              {<<e, Depth(e)>> : e \in {x \in present : ~Pruned(x) /\ Depth(x) < scanCall.maxDepth}}
        /\ scanCall.maxDepth = 0 => scanResult.files = <<>>

C9_Witness ==
    /\ Returned
    /\ scanCall.maxDepth = 2
    /\ 11 \in present
    /\ \E t \in TreeEntries(scanResult.files, 0) : t[2] = 1 /\ t[3] = "directory"

KnownExtensions ==
    {<<"j", "s">>, <<"j", "s", "x">>, <<"t", "s">>, <<"t", "s", "x">>, <<"p", "y">>,
     <<"j", "a", "v", "a">>, <<"g", "o">>, <<"r", "s">>, <<"j", "s", "o", "n">>,
     <<"m", "d">>, <<"h", "t", "m", "l">>, <<"c", "s", "s">>, <<"s", "c", "s", "s">>,
     <<"x", "m", "l">>, <<"y", "a", "m", "l">>, <<"y", "m", "l">>}

RECURSIVE SumNumerators(_)
SumNumerators(languages) ==
    IF languages = <<>> THEN 0
    ELSE Head(languages).percentage.num + SumNumerators(Tail(languages))

\* the percentages, exact quotients over one denominator, add up to 100
PercentagesSumTo100(languages) ==
    \E den \in 1..Cardinality(Entries) :
        /\ \A i \in 1..Len(languages) : languages[i].percentage.den = den
        /\ SumNumerators(languages) = 100 * den

\* C10: files of unknown extension are labelled 'Unknown' and have no
\* LanguageStats entry; each entry counts the tree files of its language;
\* with at least one file of known language the percentages sum to 100.
C10_LanguageStats ==
    Returned =>
        LET fileNodes == TreeFileNodes(scanResult.files)
            languages == scanResult.languages
            known == {n \in fileNodes : n.language # "Unknown"}
        IN  /\ \A n \in fileNodes :
                  (ToLowerCase(Slice1(ExtName(n.name))) \notin KnownExtensions) <=> n.language = "Unknown"
            /\ \A i \in 1..Len(languages) : languages[i].language # "Unknown"
            /\ \A i \in 1..Len(languages) :
                  languages[i].files =
                      Cardinality({n \in fileNodes : n.language = languages[i].language})
            /\ \A i, j \in 1..Len(languages) :
                  languages[i].language = languages[j].language => i = j
            /\ \A n \in known : \E i \in 1..Len(languages) : languages[i].language = n.language
            /\ known # {} => PercentagesSumTo100(languages)

C10_Witness ==
    /\ Returned
    /\ Len(scanResult.languages) = 3
    /\ \E i \in 1..3 : scanResult.languages[i].files = 2
    /\ \E n \in TreeFileNodes(scanResult.files) : n.language = "Unknown"

(***************************************************************************)
(* Properties of the complexity metric                                     *)
(***************************************************************************)
Scored == cxCall.made /\ cxResult.status = "ok"

\* the 1-based indexes of the lines the call scanned
ScannedLines == (cxResult.scanned[1] + 1)..cxResult.scanned[2]

\* the occurrences of a token in the whole file
OccurrencesInFile(token) ==
    SumOver(1..Len(source.lines),
            [i \in 1..Len(source.lines) |->
                Cardinality({j \in 1..Len(source.lines[i]) :
                    /\ j + Len(token) - 1 <= Len(source.lines[i])
                    /\ SubSeq(source.lines[i], j, j + Len(token) - 1) = token})])

\* the only decision tokens of the file are two `if` and one `&&`
TwoIfsAndOneAnd ==
    \A k \in 1..Len(DecisionKeywords) :
        OccurrencesInFile(DecisionKeywords[k]) =
            (IF DecisionKeywords[k] = <<"i", "f">> THEN 2
             ELSE IF DecisionKeywords[k] = <<"&", "&">> THEN 1 ELSE 0)

\* C3 (as claimed): the score is 1 plus the number of occurrences of decision
\* tokens in the scanned lines, every occurrence within a line counted; two
\* `if` and one `&&` score 4, level low, however they lie on the lines.
C3_ScoreCountsOccurrences ==
    Scored =>
        /\ cxResult.complexity =
              1 + SumOver(ScannedLines,
                          [i \in ScannedLines |-> KeywordOccurrences(source.lines[i])])
        /\ (~HasFunctionName(cxCall.args) /\ TwoIfsAndOneAnd) =>
              (cxResult.complexity = 4 /\ cxResult.level = "low")

\* C3 (amended): the score is 1 plus the number of pairs (scanned line, token)
\* such that the line contains the token: a token adds one per line that holds
\* it, however often.  Two `if` and one `&&` score 4 when the two `if` are on
\* different lines and 3 when they share a line.
C3_ScoreCountsLineTokenPairs ==
    Scored =>
        /\ cxResult.complexity =
              1 + Cardinality({p \in ScannedLines \X (1..Len(DecisionKeywords)) :
                                  Includes(source.lines[p[1]], DecisionKeywords[p[2]])})
        /\ (~HasFunctionName(cxCall.args) /\ TwoIfsAndOneAnd) =>
              /\ cxResult.level = "low"
              /\ cxResult.complexity =
                    (IF \E i \in 1..Len(source.lines) :
                            Includes(source.lines[i], <<"i", "f">>)
                            /\ OccurrencesInFile(<<"i", "f">>) = 2
                            /\ \A j \in 1..Len(source.lines) :
                                   j # i => ~Includes(source.lines[j], <<"i", "f">>)
                     THEN 3 ELSE 4)

C3_Witness ==
    /\ Scored
    /\ ~HasFunctionName(cxCall.args)
    /\ TwoIfsAndOneAnd
    /\ source.lines = <<LineEmpty, LineTwoIfs>>
    /\ cxResult.complexity = 3

\* C4: in both modes the score is an integer >= 1, the level follows the
\* thresholds 5, 10 and 20, and the recommendations are empty up to 10, the two
\* generic ones for 11..20 and those two plus the stronger one above 20.
C4_LevelAndRecommendations ==
    Scored =>
        LET c == cxResult.complexity
            r == cxResult.recommendations
        IN  /\ c \in Nat /\ c >= 1
            /\ cxResult.level \in {"low", "medium", "high", "very-high"}
            /\ cxResult.level = "low" <=> c <= 5
            /\ cxResult.level = "medium" <=> (6 <= c /\ c <= 10)
            /\ cxResult.level = "high" <=> (11 <= c /\ c <= 20)
            /\ cxResult.level = "very-high" <=> c > 20
            /\ r = <<>> <=> c <= 10
            /\ (11 <= c /\ c <= 20) => Len(r) = 2
            /\ c > 20 =>
                  /\ Len(r) = 3
                  /\ r[3] = "This function is too complex and should be refactored"
            /\ c > 10 =>
                  /\ r[1] = "Consider breaking this function into smaller functions"
                  /\ r[2] = "Extract complex conditions into named functions"

C4_Witness ==
    /\ Scored
    /\ ~ParsesToTree(source.name)
    /\ cxResult.complexity > 20
    /\ Len(cxResult.recommendations) = 3

\* the file has no line that declares or names the function in any of the
\* forms either mode looks for
NotDeclared(functionName) ==
    \A i \in 1..Len(source.lines) :
        /\ DeclaredName(source.lines[i]) # functionName
        /\ ~FallbackMatches(source.lines[i], functionName)

\* C6 (as claimed): a call naming a function the file does not declare fails
\* with an error, in structured and in fallback mode.
C6_UndeclaredFunctionFails ==
    (cxCall.made /\ HasFunctionName(cxCall.args) /\ NotDeclared(cxCall.args.function)) =>
        cxResult.status = "error"

(***************************************************************************)
(* Properties of the dependency graph                                      *)
(***************************************************************************)
Analyzed == depCall.made /\ depPc = "done" /\ depResult.status = "ok"

NodeKeys(nodes) == {nodes[i].path : i \in 1..Len(nodes)}

\* the target of the only edge that leaves key k
Successor(edges, k) == edges[CHOOSE i \in 1..Len(edges) : edges[i].from = k].to

RECURSIVE Walk(_, _, _)
\* the n keys met from k on, following the edges
Walk(edges, k, n) ==
    IF n = 0 THEN <<>> ELSE <<k>> \o Walk(edges, Successor(edges, k), n - 1)

\* the edges link node keys and are exactly one simple directed cycle
\* k1 -> k2 -> ... -> kn -> k1: every key on it has one edge out and one edge
\* in, and the walk from any of them meets all n before it closes
SimpleCycle(nodes, edges) ==
    /\ edges # <<>>
    /\ \A i \in 1..Len(edges) : edges[i].from \in NodeKeys(nodes) /\ edges[i].to \in NodeKeys(nodes)
    /\ \A i, j \in 1..Len(edges) :
          i # j => (edges[i].from # edges[j].from /\ edges[i].to # edges[j].to)
    /\ {edges[i].from : i \in 1..Len(edges)} = {edges[i].to : i \in 1..Len(edges)}
    /\ LET walk == Walk(edges, edges[1].from, Len(edges))
       IN  Cardinality({walk[i] : i \in 1..Len(walk)}) = Len(edges)

\* the first node, in node order, that lies on the cycle
FirstOnCycle(nodes, edges) ==
    nodes[CHOOSE i \in 1..Len(nodes) :
              /\ \E e \in 1..Len(edges) : edges[e].from = nodes[i].path
              /\ \A j \in 1..(i - 1) : \A e \in 1..Len(edges) : edges[e].from # nodes[j].path].path

\* C2: when the edges are exactly one simple directed cycle over node keys, the
\* result holds exactly one cycle: its nodes in edge order from the first node
\* visited, closed by repeating that node.
C2_SimpleCycleReportedOnce ==
    (Analyzed /\ SimpleCycle(depResult.nodes, depResult.edges)) =>
        LET first == FirstOnCycle(depResult.nodes, depResult.edges)
        IN  depResult.circular =
                <<Walk(depResult.edges, first, Len(depResult.edges)) \o <<first>>>>

C2_Witness ==
    /\ Analyzed
    /\ SimpleCycle(depResult.nodes, depResult.edges)
    /\ Len(depResult.edges) = 3
    /\ depResult.circular = <<<<FileA, FileB, FileC, FileA>>>>

\* C5 (as claimed): analyzeDependencies fails, and returns no graph, whenever
\* the root does not exist or a file argument is given that does not exist.
C5_MissingRootOrFileFails ==
    (/\ depCall.made
     /\ depPc = "done"
     /\ \/ ~pathExists(depCall.path)
        \/ (HasFile(depCall.args) /\ ~fileExists(depCall.args.file))) =>
        /\ depResult.status = "error"
        /\ "nodes" \notin DOMAIN depResult

(***************************************************************************)
(* Properties of the project metrics and of read failures                  *)
(***************************************************************************)
Measured == metricsCall.made /\ metricsResult.status = "ok"

\* C11 (as claimed): in the result of getProjectMetrics, whenever a file of
\* known language was counted, the percentages of the LanguageStats entries
\* sum to 100, files of unknown language in the project or not.
C11_LinePercentagesSumTo100 ==
    (Measured /\ metricsResult.languages # <<>>) =>
        \E den \in 1..(5 * Cardinality(Entries)) :
            /\ \A i \in 1..Len(metricsResult.languages) :
                  metricsResult.languages[i].percentage.den = den
            /\ SumNumerators(metricsResult.languages) = 100 * den

RECURSIVE BelowUnreadable(_)
\* the entry, or a directory above it, cannot be read
BelowUnreadable(e) ==
    \/ e \in unreadable
    \/ Template[e].parent # Root /\ BelowUnreadable(Template[e].parent)

\* C12 (as claimed): when the stat of one file or the listing of one
\* subdirectory fails, analyzeProjectStructure still returns a
\* ProjectStructure: the unreadable file is left out and every entry that is
\* neither unreadable nor below an unreadable directory is in the tree.
C12_ReadFailureSkipsEntry ==
    (scanCall.made /\ pathExists(scanCall.path)) =>
        /\ scanResult.status = "ok"
        /\ \A e \in present :
              (~Pruned(e) /\ Depth(e) < scanCall.maxDepth) =>
                  (IF BelowUnreadable(e)
                   THEN IsDirectory(e) \/ \A t \in TreeEntries(scanResult.files, 0) : t[1] # e
                   ELSE \E t \in TreeEntries(scanResult.files, 0) : t[1] = e)

\* C13 (as claimed): analyzeDependencies returns one node for each file of the
\* selected file set whose extraction did not throw, in file-set order (no
\* extraction throws here); without the structured parser every selected
\* file still has its node, with empty imports.
C13_OneNodePerSelectedFile ==
    Analyzed =>
        LET files == FilesToAnalyze(depCall.args) IN
        /\ [i \in 1..Len(depResult.nodes) |-> depResult.nodes[i].path] =
              [i \in 1..Len(files) |-> RelativePath(files[i])]
        /\ ~parserLoaded =>
              /\ \A i \in 1..Len(depResult.nodes) : depResult.nodes[i].imports = <<>>
              /\ depResult.edges = <<>>

(***************************************************************************)
(* Properties of the test coverage                                         *)
(***************************************************************************)
\* What the names of the project say, independently of the analysis
ProjectNames == {project.files[i].name : i \in 1..Len(project.files)}

IsSourceName(name) ==
    /\ name[1] # "."
    /\ Slice1(ExtName(name)) \in {<<"j", "s">>, <<"j", "s", "x">>, <<"t", "s">>, <<"t", "s", "x">>, <<"p", "y">>, <<"j", "a", "v", "a">>, <<"g", "o">>, <<"r", "s">>}

TestSuffixes ==
    {<<".", "t", "e", "s", "t", ".", "j", "s">>, <<".", "t", "e", "s", "t", ".", "t", "s">>, <<".", "s", "p", "e", "c", ".", "j", "s">>, <<".", "s", "p", "e", "c", ".", "t", "s">>, <<"_", "t", "e", "s", "t", ".", "p", "y">>, <<"T", "e", "s", "t", ".", "j", "a", "v", "a">>, <<"_", "t", "e", "s", "t", ".", "g", "o">>,
     <<"_", "t", "e", "s", "t", ".", "r", "s">>}

IsTestName(name) == name[1] # "." /\ \E x \in TestSuffixes : EndsWith(name, x)

\* the name without its extension, and a test's name without its test suffix
SourceStem(name) == SubSeq(name, 1, Len(name) - Len(ExtName(name)))
TestStem(name) ==
    LET x == CHOOSE y \in TestSuffixes : EndsWith(name, y) IN SubSeq(name, 1, Len(name) - Len(x))

HasCounterpart(name) ==
    \E t \in ProjectNames : IsTestName(t) /\ TestStem(t) = SourceStem(name)

PathOf(name) == project.root \o <<"/">> \o name

\* C14: a file of the source set is marked covered (coverage 100, counted in
\* covered) if and only if some test file has the same derived base name.
C14_CoveredIffCounterpart ==
    covCall.made =>
        /\ {covResult.files[i].file : i \in 1..Len(covResult.files)} =
              {PathOf(name) : name \in {n \in ProjectNames : IsSourceName(n)}}
        /\ \A name \in ProjectNames :
              \A i \in 1..Len(covResult.files) :
                  covResult.files[i].file = PathOf(name) =>
                      /\ covResult.files[i].coverage \in {0, 100}
                      /\ covResult.files[i].coverage = 100 <=> HasCounterpart(name)
        /\ covResult.covered =
              Cardinality({n \in ProjectNames : IsSourceName(n) /\ HasCounterpart(n)})

C14_Witness ==
    /\ covCall.made
    /\ \E i, j \in 1..Len(covResult.files) :
          /\ covResult.files[i] = [file |-> PathOf(<<"a", ".", "j", "s">>), coverage |-> 100]
          /\ covResult.files[j].coverage = 0
    /\ <<"a", ".", "t", "e", "s", "t", ".", "j", "s">> \in ProjectNames

\* C15 (as claimed): every source file that is not itself a test file and has
\* no test counterpart is in missing, whatever the directories on its path
\* are called; such a file of 600 lines is also reported as a Large File.
C15_UntestedSourceIsMissing ==
    \A name \in ProjectNames :
        (IsSourceName(name) /\ ~IsTestName(name) /\ ~HasCounterpart(name)) =>
            /\ covCall.made =>
                  \E i \in 1..Len(covResult.missing) : covResult.missing[i] = PathOf(name)
            /\ (smellCall.made /\ "types" \notin DOMAIN smellCall.args
                  /\ \E i \in 1..Len(project.files) :
                        /\ project.files[i].name = name
                        /\ Len(Lines(project.files[i].content)) = 600) =>
                  \E i \in 1..Len(smellResult) :
                      smellResult[i].type = "Large File" /\ smellResult[i].file = PathOf(name)

\* C16: 0 <= covered <= total, percentage = 100 * covered / total within
\* [0, 100] and 0 when total = 0, files has one entry per counted file, and no
\* file is both covered and listed in missing.
C16_CoverageTotals ==
    covCall.made =>
        LET r == covResult
            entries == {r.files[i].file : i \in 1..Len(r.files)}
        IN  /\ r.total \in Nat /\ r.covered \in Nat /\ r.covered <= r.total
            /\ r.percentage.den > 0
            /\ r.percentage.num * (IF r.total = 0 THEN 1 ELSE r.total)
                  = 100 * r.covered * r.percentage.den
            /\ 0 <= r.percentage.num /\ r.percentage.num <= 100 * r.percentage.den
            /\ r.total = 0 => r.percentage.num = 0
            /\ Len(r.files) = r.total /\ Cardinality(entries) = r.total
            /\ entries = {PathOf(name) : name \in {n \in ProjectNames : IsSourceName(n)}}
            /\ \A i \in 1..Len(r.files), j \in 1..Len(r.missing) :
                  r.files[i].coverage = 100 => r.files[i].file # r.missing[j]

C16_Witness ==
    /\ covCall.made
    /\ covResult.total = 5
    /\ covResult.covered = 2
    /\ covResult.missing # <<>>

(***************************************************************************)
(* Properties of the tech stack                                            *)
(***************************************************************************)
\* the keys of dependencies and devDependencies in the package.json on disk
DependencyKeys ==
    IF "package.json" \in markers /\ packageJson.valid
    THEN DOMAIN packageJson.dependencies \cup DOMAIN packageJson.devDependencies
    ELSE {}

Elements(seq) == {seq[i] : i \in 1..Len(seq)}

\* C17 (as claimed): a project whose only marker file is a package.json with
\* a `react` dependency key yields frameworks = {React}, languages with
\* JavaScript and TypeScript, packageManagers = {npm}; in general a framework
\* or test framework is reported if and only if its key is present in
\* dependencies or devDependencies.
C17_FrameworkIffDependencyKey ==
    techCall.made =>
        /\ (markers = {"package.json"} /\ DependencyKeys = {"react"}) =>
              /\ techResult.frameworks = <<"React">>
              /\ {"JavaScript", "TypeScript"} \subseteq Elements(techResult.languages)
              /\ techResult.packageManagers = <<"npm">>
        /\ \A i \in 1..Len(FrameworkKeys) :
              FrameworkKeys[i][2] \in Elements(techResult.frameworks)
                  <=> FrameworkKeys[i][1] \in DependencyKeys
        /\ \A i \in 1..Len(TestFrameworkKeys) :
              TestFrameworkKeys[i][2] \in Elements(techResult.testFrameworks)
                  <=> TestFrameworkKeys[i][1] \in DependencyKeys

(***************************************************************************)
(* Properties of concurrent and repeated requests                          *)
(***************************************************************************)
\* C18: two requests interleaved in any way at their await points each
\* return what they return when run alone; the parser cache, the only state
\* they share, changes no result.
C18_ConcurrentEqualsAlone ==
    \A r \in RequestIds :
        requests[r].pc = "done" =>
            requests[r].result = RunAlone(requests[r].input.kind, requests[r].input)

C18_Witness ==
    /\ \A r \in RequestIds :
          /\ requests[r].pc = "done"
          /\ requests[r].after = {}
          /\ requests[r].input.kind = "dependencies"
          /\ requests[r].result.status = "ok"
    /\ requests[1].result.circular # <<>>
    /\ requests[2].result.circular = <<>>
    /\ requests[2].result.edges # <<>>
    /\ parsers # {}

C20_CyclesAreClosedWalks ==
    Analyzed =>
        \A c \in 1..Len(depResult.circular) :
            LET cycle == depResult.circular[c] IN
            /\ Len(cycle) >= 2
            /\ cycle[1] = cycle[Len(cycle)]
            /\ \A i, j \in 1..(Len(cycle) - 1) : i # j => cycle[i] # cycle[j]
            /\ \A i \in 1..(Len(cycle) - 1) :
                  \E e \in 1..Len(depResult.edges) :
                      depResult.edges[e].from = cycle[i] /\ depResult.edges[e].to = cycle[i + 1]
            /\ \A i \in 1..Len(cycle) : cycle[i] \in NodeKeys(depResult.nodes)

C20_Witness ==
    /\ Analyzed
    /\ Len(depResult.circular) = 2
    /\ \E c \in 1..2 : Len(depResult.circular[c]) = 3
    /\ \E e \in 1..Len(depResult.edges) : depResult.edges[e].to = ExternalImport

(***************************************************************************)
(* Properties of the returned graph                                        *)
(***************************************************************************)
RECURSIVE SumImports(_)
SumImports(nodes) ==
    IF nodes = <<>> THEN 0 ELSE Len(Head(nodes).imports) + SumImports(Tail(nodes))

\* the targets of the edges that leave key k, in edge order
TargetsFrom(edges, k) ==
    LET own == SelectSeq(edges, LAMBDA edge : edge.from = k)
    IN  [i \in 1..Len(own) |-> own[i].to]

\* C21: the returned graph has one edge per import occurrence: for every node
\* the edges leaving node.path are, in order, node.imports with duplicates
\* kept and type 'import'; there are as many edges as imports in all; every
\* edge leaves the path of some node; node.dependencies equals node.imports.
C21_OneEdgePerImportOccurrence ==
    Analyzed =>
        LET nodes == depResult.nodes
            edges == depResult.edges
        IN  /\ \A n \in 1..Len(nodes) :
                  /\ TargetsFrom(edges, nodes[n].path) = nodes[n].imports
                  /\ nodes[n].dependencies = nodes[n].imports
            /\ \A e \in 1..Len(edges) :
                  edges[e].type = "import" /\ edges[e].from \in NodeKeys(nodes)
            /\ Len(edges) = SumImports(nodes)

C21_Witness ==
    /\ Analyzed
    /\ Len(depResult.nodes) = 3
    /\ depResult.nodes[1].imports = <<FileB, FileB>>
    /\ depResult.nodes[2].imports = <<ExternalImport, FileA>>
    /\ Len(depResult.edges) = 4

\* a call of dfs got past both early returns and will expand the edges of its node
Expands == Len(frames') = Len(frames) + 1

\* C22: the walk terminates on every import graph; the outgoing edges of an
\* identifier are expanded only by a call that finds it unvisited and marks
\* it, and no mark is removed during a walk, so at most once; when the walk
\* has finished the recursion stack and the path list are empty.
C22_DfsTerminatesExpandingOnce ==
    /\ (depPc = "dfs") ~> (depPc = "done")
    /\ [][/\ Expands =>
               LET node == frames'[Len(frames')].node
               IN  node \notin visited /\ node \in visited'
          /\ (depPc = "dfs" /\ depPc' # "idle") => visited \subseteq visited'
          /\ (depPc = "dfs" /\ depPc' = "done") => (recStack = {} /\ dfsPath = <<>>)]_vars
    /\ [](Analyzed => (recStack = {} /\ dfsPath = <<>> /\ frames = <<>>))

C22_Witness ==
    /\ Analyzed
    /\ recStack = {} /\ dfsPath = <<>>
    /\ depResult.edges = <<[from |-> FileA, to |-> FileA, type |-> "import"],
                           [from |-> FileA, to |-> FileB, type |-> "import"],
                           [from |-> FileA, to |-> FileB, type |-> "import"],
                           [from |-> FileB, to |-> FileA, type |-> "import"]>>
    /\ Len(depResult.circular) = 2

(***************************************************************************)
(* Properties of the size walk                                             *)
(***************************************************************************)
RECURSIVE BelowUnlistable(_)
\* a directory above the entry cannot be listed
BelowUnlistable(e) ==
    Template[e].parent # Root /\
        (Template[e].parent \in unreadable \/ BelowUnlistable(Template[e].parent))

\* C23 (as claimed): an unreadable entry removes only its own bytes from
\* totalSize: every file that exists, can be read, is not ignored and lies
\* below no unreadable directory is counted, later siblings of an unreadable
\* file included.
C23_UnreadableEntryLosesOnlyItsBytes ==
    Returned =>
        \A e \in present :
            (/\ ~IsDirectory(e)
             /\ Statable(e)
             /\ ~Pruned(e)
             /\ ~BelowUnlistable(e)) => CountsBytesOf(scanResult.totalSize, e)

(***************************************************************************)
(* Properties of the fallback function range                               *)
(***************************************************************************)
\* the call ran in fallback mode, named a function and found it
FoundInFallback ==
    /\ Scored
    /\ ~ParsesToTree(source.name)
    /\ HasFunctionName(cxCall.args)
    /\ \E i \in 1..Len(source.lines) : FallbackMatches(source.lines[i], cxCall.args.function)

\* the 0-based index of the first line naming the function
FoundAt ==
    CHOOSE i \in 0..(Len(source.lines) - 1) :
        /\ FallbackMatches(source.lines[i + 1], cxCall.args.function)
        /\ \A k \in 0..(i - 1) : ~FallbackMatches(source.lines[k + 1], cxCall.args.function)

\* the 0-based indexes, from `least` on, of the lines that are exactly '}'
ClosingLines(least) ==
    {j \in least..(Len(source.lines) - 1) : Trim(source.lines[j + 1]) = <<"}">>}

\* the scanned range starts at the declaration and ends at the first closing
\* line at or after `least`, or at the end of the file when there is none
RangeEndsAtFirstClosing(least) ==
    /\ cxResult.scanned[1] = FoundAt
    /\ IF ClosingLines(least) = {}
       THEN cxResult.scanned[2] = Len(source.lines)
       ELSE /\ cxResult.scanned[2] \in ClosingLines(least)
            /\ \A j \in ClosingLines(least) : cxResult.scanned[2] <= j

\* C24 (as claimed): in fallback mode, the function being found at line i, the
\* scanned range ends at the first line j >= i + 3 that is exactly '}'.
C24_RangeEndsThreeLinesLater ==
    FoundInFallback => RangeEndsAtFirstClosing(FoundAt + 3)

\* C24 (amended): in fallback mode, the function being found at line i, the
\* scanned range ends at the first line j >= i + 4 that is exactly '}' after
\* trimming, and at the end of the file when there is no such line.
C24_RangeEndsFourLinesLater ==
    FoundInFallback => RangeEndsAtFirstClosing(FoundAt + 4)

C24_Witness ==
    /\ FoundInFallback
    /\ FoundAt = 1
    /\ Len(source.lines) = 6
    /\ Trim(source.lines[5]) = <<"}">>
    /\ Trim(source.lines[6]) = <<"}">>
    /\ cxResult.scanned = <<1, 5>>

(***************************************************************************)
(* Properties of the smell detectors                                       *)
(***************************************************************************)
FirstPath == AbsolutePath(project.files[1].name)

FirstLines == Lines(project.files[1].content)

\* a call read the first file of the project and ran the long-method detector
LongMethodRun ==
    /\ smellCall.made
    /\ Enabled(smellCall.args, "long-method")
    /\ project.files[1].readable

\* the lines from the start line i until the brace balance, an opening brace
\* having been met, is zero again; 0 when that never happens
LinesUntilBalanced(lines, i) ==
    LET balance == BraceCounts(lines, i, Len(lines))
        Opened(n) == \E k \in i..(i + n - 1) : CountChar(lines[k], "{") > 0
        returns == {n \in 1..Len(balance) : balance[n] = 0 /\ Opened(n)}
    IN  IF returns = {} THEN 0 ELSE CHOOSE n \in returns : \A m \in returns : n <= m

\* the Long Method smells reported for line i of the first file
LongMethodsAt(i) ==
    {k \in 1..Len(smellResult) :
        /\ smellResult[k].type = "Long Method"
        /\ smellResult[k].file = FirstPath
        /\ smellResult[k].line = i}

\* C25 (as claimed): for every function-start line i, a Long Method smell is
\* reported at that line if and only if the number n of lines until the
\* brace balance returns to zero exceeds 50, with severity high iff n > 100,
\* wherever the opening brace of the function is.
C25_LongMethodIffBalancedAfter50 ==
    LongMethodRun =>
        \A i \in 1..Len(FirstLines) :
            isFunctionStart(FirstLines[i], detectLanguage(FirstPath)) =>
                LET n == LinesUntilBalanced(FirstLines, i) IN
                /\ LongMethodsAt(i) # {} <=> n > LongMethodThreshold
                /\ \A k \in LongMethodsAt(i) :
                      smellResult[k].severity = "high" <=> n > LongMethodHigh

\* the smell type a types entry enables
TypeKey(type) ==
    CASE type = "Long Method" -> "long-method"
      [] type = "Magic Number" -> "magic-number"
      [] type = "Duplicate Code" -> "duplicate-code"
      [] type = "Large File" -> "large-file"

\* the types argument is absent or lists the key of the smell's type
EnabledBy(args, smell) ==
    "types" \notin DOMAIN args \/ TypeKey(smell.type) \in Elements(args.types)

\* C26: a call with a list T of types returns the smells of the call without
\* types whose type T enables, in the same order; an empty T yields no smell;
\* no smell names a file that cannot be read, and the smells of every other
\* file are those of that file taken alone.
C26_DetectorsIndependent ==
    smellCall.made =>
        /\ smellResult = SelectSeq(detectCodeSmells(<<>>), LAMBDA smell : EnabledBy(smellCall.args, smell))
        /\ ("types" \in DOMAIN smellCall.args /\ smellCall.args.types = <<>>) => smellResult = <<>>
        /\ \A f \in 1..Len(project.files) :
              LET file == AbsolutePath(project.files[f].name)
                  own == SelectSeq(smellResult, LAMBDA smell : smell.file = file)
              IN  IF project.files[f].readable
                  THEN own = SmellsOfFile(file, Lines(project.files[f].content), smellCall.args)
                  ELSE own = <<>>

C26_Witness ==
    /\ smellCall.made
    /\ "types" \in DOMAIN smellCall.args
    /\ smellCall.args.types = <<"large-file", "magic-number", "long-method">>
    /\ Len(project.files) = 2
    /\ ~project.files[2].readable
    /\ Len(smellResult) = 4
    /\ smellResult[1].type = "Long Method"
    /\ smellResult[4].type = "Large File"
    /\ Len(detectCodeSmells(<<>>)) = 4
    /\ \A k \in 1..4 : smellResult[k].file = FirstPath

(***************************************************************************)
(* Properties of the changelog                                             *)
(***************************************************************************)
\* the heading and the categorized changes of a call, as one text
SectionOf(call) == VersionHeading(call.version, call.date) \o CategorizedChanges(call.changes)

\* the positions at which the text p starts a line of s
LineStarts(s, p) == {i \in Occurrences(s, p) : i = 1 \/ s[i - 1] = "\n"}

\* C27 (as claimed): after any sequence of update_changelog calls the file
\* starts with a single '# Changelog' header and holds, newest first, the
\* '## [v] - date' heading of every call followed by that call's categorized
\* changes: no earlier heading or entry is lost or altered by a later call.
C27_ChangelogKeepsEveryVersion ==
    changelogCalls # <<>> =>
        /\ StartsWith(changelog, ChangelogTitle \o <<"\n">>)
        /\ Cardinality(Occurrences(changelog, ChangelogTitle)) = 1
        /\ \A i \in 1..Len(changelogCalls) :
              LineStarts(changelog, SectionOf(changelogCalls[i])) # {}
        /\ \A i, j \in 1..Len(changelogCalls) :
              i < j => \E p \in LineStarts(changelog, SectionOf(changelogCalls[j])),
                          q \in LineStarts(changelog, SectionOf(changelogCalls[i])) : p < q

(***************************************************************************)
(* Properties of the server                                                *)
(***************************************************************************)
\* the step is a CallTool request
Requested == Len(responses') = Len(responses) + 1

\* C28: a CallTool request for a registered tool whose handler throws resolves
\* to a response with isError = true and text 'Error: <message>'; a request
\* for a name that is not registered is rejected with 'Tool <name> not
\* found'; no request changes the registry, and a request for a registered
\* tool gets what its handler yields, whatever the requests before it.
C28_CallToolContainsHandlerErrors ==
    [][Requested =>
          LET request == responses'[Len(responses')]
              response == request.response
          IN  /\ tools' = tools
              /\ IF request.name \notin DOMAIN tools
                 THEN response = [kind |-> "rejected",
                                  message |-> <<"Tool ", request.name, " not found">>]
                 ELSE LET outcome == tools[request.name][request.args] IN
                      /\ response.kind = "result"
                      /\ IF outcome.kind = "throw"
                         THEN /\ response.isError = TRUE
                              /\ response.text = <<"Error: ", outcome.message>>
                         ELSE /\ "isError" \notin DOMAIN response
                              /\ response.text = ResultText(outcome)]_vars

C28_Witness ==
    /\ Len(responses) = 3
    /\ responses[1].name = "analyze_project_structure"
    /\ responses[1].response.kind = "result"
    /\ "isError" \in DOMAIN responses[1].response
    /\ responses[2].response = [kind |-> "rejected", message |-> <<"Tool ", UnknownTool, " not found">>]
    /\ responses[3].name = "analyze_project_structure"
    /\ responses[3].response = [kind |-> "result", text |-> "Project structure"]
    /\ DOMAIN tools = ToolNames

(***************************************************************************)
(* Properties of the cycle list                                            *)
(***************************************************************************)
\* the identifiers an edge list names
Identifiers(edges) == UNION {{edges[e].from, edges[e].to} : e \in 1..Len(edges)}

RECURSIVE ReachableWithin(_, _, _)
\* the identifiers reached from k by one to n edges
ReachableWithin(edges, k, n) ==
    IF n = 0 THEN {}
    ELSE LET near == ReachableWithin(edges, k, n - 1)
         IN  near \cup {edges[e].to : e \in {d \in 1..Len(edges) : edges[d].from \in near \cup {k}}}

\* the import edges hold a directed cycle, a self-import included
HasDirectedCycle(edges) ==
    \E k \in Identifiers(edges) : k \in ReachableWithin(edges, k, Cardinality(Identifiers(edges)))

\* C29: circular is non-empty if and only if the directed graph of the import
\* edges holds a directed cycle (a self-import x -> x included); it is empty
\* exactly for acyclic edge sets.
C29_CircularIffDirectedCycle ==
    Analyzed => (depResult.circular # <<>> <=> HasDirectedCycle(depResult.edges))

C29_Witness ==
    /\ Analyzed
    /\ depResult.circular = <<<<FileB, FileC, FileB>>>>
    /\ depResult.edges[1].from = FileA
    /\ Len(depResult.edges) = 4
    /\ HasDirectedCycle(depResult.edges)

\* C30 (as claimed): no two entries of circular are the same sequence, also
\* when an import on the cycle occurs more than once in its source file.
C30_NoCycleReportedTwice ==
    Analyzed =>
        \A c, d \in 1..Len(depResult.circular) :
            c # d => depResult.circular[c] # depResult.circular[d]

====
